---- MODULE Spec2Model ----
(***************************************************************************)
(* Settlement engine of the mock trading server, PostgreSQL variant        *)
(* (src/api/index.js): request handlers for /api/buy, /api/sell,           *)
(* /api/stocks/update-price, /api/portfolio and /api/transactions running  *)
(* concurrently against one database; /api/buy of the better-sqlite3       *)
(* variant of the server (src/unnamed/part_000), whose handlers are        *)
(* synchronous; and /api/portfolio of the variant that keeps the balance   *)
(* in the table user_funds (src/unnamed/part_002).                         *)
(*                                                                         *)
(* Every `await` of a handler is one step of that handler; the synchronous *)
(* code that follows the await up to the next await belongs to the step.   *)
(* The database is PostgreSQL at its default isolation level, READ         *)
(* COMMITTED: a SELECT sees what is committed when it runs, UPDATE and     *)
(* DELETE lock the row they touch until the transaction ends and act on    *)
(* the row version that is committed once the lock is obtained.            *)
(*                                                                         *)
(* A statement that fails aborts its transaction at once (the server       *)
(* releases its row locks); a COMMIT that throws has committed nothing.    *)
(*                                                                         *)
(* Money is counted in hundredths (cents), so 100000.00 is 10000000, and   *)
(* amounts are exact (the REAL columns and JavaScript doubles are not      *)
(* modelled bit by bit).  Numbers of a request body are hundredths too:    *)
(* the quantity 100.5 is the number 10050.                                 *)
(*                                                                         *)
(* Spec runs NumClients handlers concurrently on a small set of bodies;    *)
(* SpecSeq runs one request at a time on a wide set of bodies; SpecBoth    *)
(* runs one request at a time on either variant of the server; SpecView    *)
(* runs portfolio views beside trades; SpecStats runs portfolio views on   *)
(* databases drawn from bounded sets; SpecLedger runs ledger listings      *)
(* between trades while the clock advances; SpecReset adds /api/reset in   *)
(* each environment; SpecBoot runs startServer before the trades; SpecPool *)
(* counts handlers of unknown-instrument trades by their place at the      *)
(* connection pool.  SpecFunds, SpecSupa and SpecFiles run the trades of   *)
(* the user_funds server (src/unnamed/part_002), of the Supabase server    *)
(* (src/unnamed/part_000) and of the JSON-file server                      *)
(* (src/unnamed/part_003), whose writes are separate calls without a       *)
(* transaction.                                                            *)
(***************************************************************************)
EXTENDS Integers, Sequences, FiniteSets, TLC

\* ------------------------------------------------------------------ bounds
NumClients  == 2      \* request handlers that can be in flight together
MaxRequests == 3      \* requests received in one behaviour
MaxFailures == 1      \* persistence calls that fail in one behaviour
MaxClock    == 1      \* milliseconds that pass in one behaviour

\* ------------------------------------------------------- program constants
LotSize        == 100
InitialBalance == 10000000

Procs == 1 .. NumClients

\* ------------------------------------------------- JavaScript values
\* A value of a JSON request body: t is `typeof value`, h the number in
\* hundredths (numbers only), s the characters (strings only).
Num(x) == [t |-> "number", h |-> x, s |-> <<>>]
Str(x) == [t |-> "string", h |-> 0, s |-> x]
Undefined == [t |-> "undefined", h |-> 0, s |-> <<>>]
Null == [t |-> "object", h |-> 0, s |-> <<>>]

\* The result of parseInt / parseFloat: NaN or a number v.
NaN == [nan |-> TRUE, v |-> 0]
Val(x) == [nan |-> FALSE, v |-> x]

Digits == <<"0", "1", "2", "3", "4", "5", "6", "7", "8", "9">>
IsDigit(c) == \E i \in 1 .. 10 : Digits[i] = c
DigitOf(c) == (CHOOSE i \in 1 .. 10 : Digits[i] = c) - 1

Tail2(s, n) == SubSeq(s, n + 1, Len(s))

\* The longest prefix of s made of decimal digits.
RECURSIVE LeadingDigits(_)
LeadingDigits(s) ==
  IF s = <<>> \/ ~IsDigit(Head(s)) THEN <<>>
  ELSE <<Head(s)>> \o LeadingDigits(Tail(s))

RECURSIVE DigitsValue(_, _)
DigitsValue(s, acc) ==
  IF s = <<>> THEN acc ELSE DigitsValue(Tail(s), 10 * acc + DigitOf(Head(s)))

RECURSIVE IntToDigits(_)
IntToDigits(n) ==
  IF n < 10 THEN <<Digits[n + 1]>>
  ELSE IntToDigits(n \div 10) \o <<Digits[(n % 10) + 1]>>

Abs(x) == IF x < 0 THEN -x ELSE x

\* String(n) of a number n = h / 100: sign, integer part, and the fraction
\* without trailing zeros.
NumberToString(h) ==
  LET a    == Abs(h)
      ip   == a \div 100
      fp   == a % 100
      frac == IF fp = 0 THEN <<>>
              ELSE IF fp % 10 = 0 THEN <<".", Digits[(fp \div 10) + 1]>>
              ELSE <<".", Digits[(fp \div 10) + 1], Digits[(fp % 10) + 1]>>
  IN (IF h < 0 THEN <<"-">> ELSE <<>>) \o IntToDigits(ip) \o frac

\* ToString of a request value that is a number or a string.
ToStr(x) == IF x.t = "number" THEN NumberToString(x.h) ELSE x.s

HasSign(s) == s # <<>> /\ Head(s) \in {"-", "+"}
Unsigned(s) == IF HasSign(s) THEN Tail(s) ELSE s
SignOf(s) == IF s # <<>> /\ Head(s) = "-" THEN -1 ELSE 1

\* Number(string) is NaN unless the whole string is a decimal literal; the
\* empty string converts to 0.
StringIsNaN(s) ==
  LET u  == Unsigned(s)
      d1 == LeadingDigits(u)
      r1 == Tail2(u, Len(d1))
      d2 == IF r1 # <<>> /\ Head(r1) = "." THEN LeadingDigits(Tail(r1)) ELSE <<>>
      r2 == IF r1 # <<>> /\ Head(r1) = "." THEN Tail2(Tail(r1), Len(d2)) ELSE r1
  IN IF s = <<>> THEN FALSE
     ELSE ~(r2 = <<>> /\ (d1 # <<>> \/ d2 # <<>>))

\* isNaN(value) for a number or a string of a JSON body (a JSON number is
\* never NaN).
IsNaN(x) == IF x.t = "string" THEN StringIsNaN(x.s) ELSE x.t # "number"

\* parseInt(string, 10): optional sign, then the leading decimal digits.
ParseInt(s) ==
  LET d == LeadingDigits(Unsigned(s))
  IN IF d = <<>> THEN NaN ELSE Val(SignOf(s) * DigitsValue(d, 0))

\* parseFloat(string) in hundredths: optional sign, leading digits, and a
\* fraction, of which the inputs of this model have at most two digits.
ParseFloat(s) ==
  LET u  == Unsigned(s)
      d1 == LeadingDigits(u)
      r1 == Tail2(u, Len(d1))
      d2 == IF r1 # <<>> /\ Head(r1) = "." THEN LeadingDigits(Tail(r1)) ELSE <<>>
      f2 == SubSeq(d2 \o <<"0", "0">>, 1, 2)
  IN IF d1 = <<>> /\ d2 = <<>> THEN NaN
     ELSE Val(SignOf(s) * (100 * DigitsValue(d1, 0) + DigitsValue(f2, 0)))

\* ------------------------------------------------- input validation
validateStockId(stockId) ==
  IF stockId.t # "string" \/ stockId.s = "" \/ stockId.s = " "
  THEN [valid |-> FALSE, message |-> "stockId"]
  ELSE [valid |-> TRUE, message |-> ""]

validateQuantity(quantity) ==
  IF quantity.t # "number" /\ (quantity.t # "string" \/ IsNaN(quantity))
  THEN [valid |-> FALSE, message |-> "quantityNotNumber", parsed |-> 0]
  ELSE LET parsed == ParseInt(ToStr(quantity))
       IN IF parsed.nan \/ parsed.v <= 0 \/ parsed.v % LotSize # 0
          THEN [valid |-> FALSE, message |-> "quantityNotLot", parsed |-> parsed.v]
          ELSE [valid |-> TRUE, message |-> "", parsed |-> parsed.v]

\* Mutant of validatePrice: the test parsed <= 0 written parsed < 0.
validatePriceAcceptsZero(price) ==
  IF price.t # "number" /\ (price.t # "string" \/ IsNaN(price))
  THEN [valid |-> FALSE, message |-> "priceNotNumber", parsed |-> 0]
  ELSE LET parsed == ParseFloat(ToStr(price))
       IN IF parsed.nan \/ parsed.v < 0
          THEN [valid |-> FALSE, message |-> "priceNotPositive", parsed |-> parsed.v]
          ELSE [valid |-> TRUE, message |-> "", parsed |-> parsed.v]

validatePrice(price) ==
  IF price.t # "number" /\ (price.t # "string" \/ IsNaN(price))
  THEN [valid |-> FALSE, message |-> "priceNotNumber", parsed |-> 0]
  ELSE LET parsed == ParseFloat(ToStr(price))
       IN IF parsed.nan \/ parsed.v <= 0
          THEN [valid |-> FALSE, message |-> "priceNotPositive", parsed |-> parsed.v]
          ELSE [valid |-> TRUE, message |-> "", parsed |-> parsed.v]

\* ------------------------------------------------- arithmetic
RECURSIVE GCD(_, _)
GCD(a, b) == IF b = 0 THEN a ELSE GCD(b, a % b)

\* A positive rational n / d in lowest terms (an average price in cents).
Rat(n, d) == LET g == GCD(n, d) IN [n |-> n \div g, d |-> d \div g]

\* a / b rounded to the nearest integer, halves away from zero (b > 0):
\* the effect of toFixed(2) on an amount counted in cents.
RoundDiv(a, b) ==
  IF a >= 0 THEN (2 * a + b) \div (2 * b) ELSE -((2 * (-a) + b) \div (2 * b))

\* ------------------------------------------------- the catalog
\* Two of the ten instruments initDatabase seeds, and a code that is not
\* seeded.
Stocks == {"600036", "600028"}
UnknownStock == "999999"
SeedPrice(id) == IF id = "600036" THEN 3265 ELSE 438

\* ------------------------------------------------- request bodies
Chars(a, b, c) == <<a, b, c>>

StockIdInputs ==
  {Str("600036"), Str("600028"), Str(UnknownStock), Str(""), Undefined}

QuantityInputs ==
  {Num(10000), Num(20000), Num(15000), Num(0), Num(-10000), Num(10050),
   Str(Chars("1", "0", "0")), Str(Chars("a", "b", "c")), Str(<<>>), Null}

PriceInputs ==
  {Undefined, Num(50000), Num(0), Num(-100),
   Str(Chars("5", "0", "0")), Str(Chars("a", "b", "c")), Str(<<>>), Null}

Body(i, q, pr) == [stockId |-> i, quantity |-> q, price |-> pr]

\* The bodies of concurrent trades: a supplied price of 500.00, which makes
\* 200 units cost the whole initial balance, and one trade at the catalog
\* price.
Bodies ==
  {Body(Str("600036"), q, Num(50000)) : q \in {Num(10000), Num(20000)}}
  \cup {Body(Str(i), Num(10000), Num(50000)) : i \in {"600028", UnknownStock}}
  \cup {Body(Str("600036"), Num(10000), Undefined)}

\* The bodies of trades that run one at a time: every combination of the
\* plain values, and each unusual value of one field with plain other
\* fields.
PlainIds == {Str("600036"), Str("600028"), Str(UnknownStock)}
PlainQuantities == {Num(10000), Num(20000)}
PlainPrices == {Undefined, Num(50000), Num(100000)}

WideBodies ==
  {Body(i, q, pr) : i \in PlainIds, q \in PlainQuantities, pr \in PlainPrices}
  \cup {Body(i, Num(10000), Num(50000)) : i \in StockIdInputs}
  \cup {Body(Str("600036"), q, Num(50000)) : q \in QuantityInputs}
  \cup {Body(Str("600036"), Num(10000), pr) : pr \in PriceInputs}

\* Bodies of /api/stocks/update-price (quantity is not read).
PriceBodies ==
  {Body(Str("600036"), Undefined, Num(50000)),
   Body(Str(UnknownStock), Undefined, Num(50000)),
   Body(Str("600036"), Undefined, Num(0))}

WidePriceBodies ==
  {Body(i, Undefined, pr) : i \in StockIdInputs, pr \in PriceInputs}

\* ------------------------------------------------- state
VARIABLES
  stocks,        \* table stocks: id -> price (cents)
  user,          \* table "user": <<>> or <<balance>> of the row id = 1
  portfolio,     \* table portfolio: set of rows [id, stockId, quantity, avg]
  portfolioSeq,  \* the SERIAL sequence of portfolio.id
  transactions,  \* table transactions, in insertion order
  h,             \* the handler running on each connection slot
  nreq,          \* requests received so far
  nfail,         \* persistence calls that failed so far
  lite,          \* the database and last answer of the better-sqlite3 server
  funds,         \* table user_funds and last answer of the user_funds server
  clock,         \* the server's clock, in milliseconds since it started
  supa,          \* tables and last answer of the Supabase server
  files,         \* data files and handlers of the JSON-file server
  pool,          \* handlers of unknown-instrument trades by pool.connect() state
  env,           \* process.env.NODE_ENV
  boot           \* startServer: its position and what initDatabase returned

others == <<supa, files, pool, env, boot>>

vars ==
  <<stocks, user, portfolio, portfolioSeq, transactions, h, nreq, nfail,
    lite, funds, clock, others>>
db == <<stocks, user, portfolio, portfolioSeq, transactions>>

NoWrite == [op |-> "none", id |-> 0, stockId |-> "", quantity |-> 0, avg |-> Rat(0, 1)]
NoWrites == [user |-> <<>>, port |-> NoWrite, tx |-> <<>>]

\* A response: the HTTP status, the kind of answer and the fields the
\* handlers put in it.
Resp(status, error) ==
  [status |-> status, error |-> error, required |-> 0, available |-> 0,
   requested |-> 0, tx |-> <<>>, newBalance |-> 0, availableStocks |-> {},
   price |-> 0, transactions |-> {}, total |-> 0, view |-> <<>>,
   rows |-> <<>>, page |-> 0, limit |-> 0, pages |-> 0]

Idle ==
  [pc |-> "idle", op |-> "none", id |-> 0, body |-> Body(Undefined, Undefined, Undefined),
   parsedQuantity |-> 0, parsedPrice |-> 0, stockPrice |-> 0, tradePrice |-> 0,
   total |-> 0, balance |-> 0, holding |-> <<>>, profitLoss |-> 0,
   newBalance |-> 0, w |-> NoWrites, pend |-> <<>>, lost |-> FALSE,
   rows |-> {}, page |-> 0, limit |-> 0, resp |-> <<>>]

\* The database of the better-sqlite3 server once ../db/init has run: the
\* seeded catalog, the default balance, no position and no ledger entry.
LiteInit ==
  [stocks |-> [id \in Stocks |-> SeedPrice(id)], balance |-> InitialBalance,
   portfolio |-> {}, transactions |-> <<>>, resp |-> <<>>]

\* The user_funds server before its first request: its table user_funds
\* is created outside the code and nothing seeds it.
FundsInit ==
  [rows |-> <<>>, portfolio |-> {}, transactions |-> <<>>, n |-> 0,
   req |-> [op |-> "none", body |-> Body(Undefined, Undefined, Undefined)],
   resp |-> <<>>]

\* The Supabase server: table "user" (<<>> or <<balance>>), portfolio,
\* transactions, the requests so far, and the last request and answer.
SupaInit ==
  [user |-> <<InitialBalance>>, portfolio |-> {}, transactions |-> <<>>, n |-> 0,
   req |-> [op |-> "none", body |-> Body(Undefined, Undefined, Undefined)],
   applied |-> {}, resp |-> <<>>]

\* The JSON-file server: user.json, transactions.json, and the handler of
\* each request in flight.
FileIdle ==
  [pc |-> "idle", op |-> "none", id |-> 0, body |-> Body(Undefined, Undefined, Undefined),
   user |-> <<>>, transactions |-> <<>>, tx |-> <<>>, resp |-> <<>>]

FilesInit ==
  [user |-> [balance |-> InitialBalance, portfolio |-> {}],
   transactions |-> <<>>, n |-> 0, done |-> {}, h |-> [p \in Procs |-> FileIdle]]

\* No unknown-instrument trade has arrived.
PoolInit == [connect |-> 0, list |-> 0, n |-> 0, ok |-> 0, err |-> 0, rejected |-> 0]

\* The server listens; initDatabase has returned.
Serving == [phase |-> "listening", init |-> "false", tries |-> 0]

Init ==
  /\ lite = LiteInit
  /\ funds = FundsInit
  /\ clock = 0
  /\ supa = SupaInit
  /\ files = FilesInit
  /\ pool = PoolInit
  /\ env = "production"
  /\ boot = Serving
  /\ stocks = [id \in Stocks |-> SeedPrice(id)]
  /\ user = <<InitialBalance>>
  /\ portfolio = {}
  /\ portfolioSeq = 1
  /\ transactions = <<>>
  /\ h = [p \in Procs |-> Idle]
  /\ nreq = 0
  /\ nfail = 0

Set(p, rec) == h' = [h EXCEPT ![p] = rec]

\* The handler has answered and released its client (finally).
Answer(p, r) ==
  Set(p, [Idle EXCEPT !.pc = "done", !.op = h[p].op, !.id = h[p].id,
                      !.body = h[p].body, !.resp = <<r>>])

\* The handler's promise rejected: its client is released, nothing is sent.
Reject(p) ==
  Set(p, [Idle EXCEPT !.pc = "rejected", !.op = h[p].op, !.id = h[p].id,
                      !.body = h[p].body])

Finished(p) == h[p].pc \in {"idle", "done", "rejected"}

\* ------------------------------------------------- rows and locks
StockId(p) == h[p].body.stockId.s

\* SELECT * FROM portfolio WHERE stockId = $1, as `rows`.
HoldingRows(sid) ==
  IF \E r \in portfolio : r.stockId = sid
  THEN <<CHOOSE r \in portfolio : r.stockId = sid>>
  ELSE <<>>

RowExists(id) == \E r \in portfolio : r.id = id
RowOf(id) == CHOOSE r \in portfolio : r.id = id

\* The transactions other than p's that hold the lock of the "user" row.
UserLockers(p) == {q \in Procs \ {p} : h[q].w.user # <<>>}

\* The transactions other than p's that hold the lock of portfolio row id.
RowLockers(p, id) ==
  {q \in Procs \ {p} : h[q].w.port.op \in {"update", "delete"} /\ h[q].w.port.id = id}

\* The transactions other than p's an INSERT of stock sid waits for: one
\* that inserted the same stockId, or one that updates or deletes the
\* committed row of that stockId (UNIQUE(stockId)).
InsertLockers(p, sid) ==
  {q \in Procs \ {p} : h[q].w.port.op = "insert" /\ h[q].w.port.stockId = sid}
  \cup {q \in Procs \ {p} : h[q].w.port.op \in {"update", "delete"}
                            /\ RowExists(h[q].w.port.id)
                            /\ RowOf(h[q].w.port.id).stockId = sid}

\* The transactions the statement p is about to run waits for.
Blockers(p) ==
  IF h[p].pc = "updUser" THEN UserLockers(p)
  ELSE IF h[p].pc = "writeHolding"
       THEN IF h[p].holding = <<>> THEN InsertLockers(p, StockId(p))
            ELSE RowLockers(p, h[p].holding[1].id)
       ELSE {}

RECURSIVE WaitsFor(_, _)
WaitsFor(S, n) ==
  IF n = 0 THEN S
  ELSE WaitsFor(S \cup UNION {Blockers(q) : q \in S}, n - 1)

\* p waits, directly or not, for a transaction that waits for p.
Deadlocked(p) == p \in WaitsFor(Blockers(p), NumClients)

\* ------------------------------------------------- /api/buy and /api/sell
\* A request arrives and is given to a free slot (the lowest: slots are
\* interchangeable); the handler calls pool.connect().
Listening == boot.phase = "listening"

Free(p) == Listening /\ Finished(p) /\ \A q \in Procs : q < p => ~Finished(q)

Receive(p, B) ==
  /\ Free(p)
  /\ nreq < MaxRequests
  /\ \E op \in {"buy", "sell"}, b \in B :
       Set(p, [Idle EXCEPT !.pc = "connect", !.op = op, !.id = nreq + 1, !.body = b])
  /\ nreq' = nreq + 1
  /\ UNCHANGED <<db, nfail, lite, funds, clock, others>>

ReceiveTrade(p) == Receive(p, Bodies)

\* await pool.connect() resolves; the request is validated.
Connect(p) ==
  /\ h[p].pc = "connect"
  /\ LET b  == h[p].body
         sv == validateStockId(b.stockId)
         qv == validateQuantity(b.quantity)
         pv == validatePrice(b.price)
     IN IF ~sv.valid THEN Answer(p, Resp(400, "InvalidStockId"))
        ELSE IF ~qv.valid THEN Answer(p, Resp(400, "InvalidQuantity"))
        ELSE IF b.price.t # "undefined" /\ ~pv.valid
             THEN Answer(p, Resp(400, "InvalidPrice"))
        ELSE Set(p, [h[p] EXCEPT !.pc = "begin",
                                 !.parsedQuantity = qv.parsed,
                                 !.parsedPrice = IF b.price.t # "undefined"
                                                 THEN pv.parsed ELSE 0])
  /\ UNCHANGED <<db, nreq, nfail, lite, funds, clock, others>>

\* await pool.connect() rejects: the handler's promise rejects before its
\* try block, and nothing answers the request.
ConnectFails(p) ==
  /\ h[p].pc = "connect"
  /\ nfail < MaxFailures
  /\ Reject(p)
  /\ nfail' = nfail + 1
  /\ UNCHANGED <<db, nreq, lite, funds, clock, others>>

Begin(p) ==
  /\ h[p].pc = "begin"
  /\ Set(p, [h[p] EXCEPT !.pc = "selStock"])
  /\ UNCHANGED <<db, nreq, nfail, lite, funds, clock, others>>

\* Mutant of TradePrice: the catalog price comes first.
TradePriceFromCatalog(parsedPrice, stockPrice) == stockPrice

\* parsedPrice || stock.price (parsedPrice is 0 here when no price was
\* supplied: it is null in the code, and a supplied price is never 0)
TradePrice(parsedPrice, stockPrice) ==
  IF parsedPrice # 0 THEN parsedPrice ELSE stockPrice

\* Mutant of SelectStock: a trade of an instrument that is not in the
\* catalog goes on at the price 4.38.
SelectStockAcceptsUnknown(p) ==
  /\ h[p].pc = "selStock"
  /\ LET price == IF StockId(p) \in DOMAIN stocks THEN stocks[StockId(p)] ELSE 438
         tradePrice == TradePrice(h[p].parsedPrice, price)
     IN Set(p, [h[p] EXCEPT
            !.pc = IF h[p].op = "buy" THEN "selUser" ELSE "selHolding",
            !.stockPrice = price,
            !.tradePrice = tradePrice,
            !.total = tradePrice * h[p].parsedQuantity])
  /\ UNCHANGED <<db, nreq, nfail, lite, funds, clock, others>>

\* SELECT * FROM stocks WHERE id = $1
SelectStock(p) ==
  /\ h[p].pc = "selStock"
  /\ IF StockId(p) \notin DOMAIN stocks
     THEN Set(p, [h[p] EXCEPT !.pc = "rbUnknown"])
     ELSE LET price == stocks[StockId(p)]
              tradePrice == TradePrice(h[p].parsedPrice, price)
          IN Set(p, [h[p] EXCEPT
                 !.pc = IF h[p].op = "buy" THEN "selUser" ELSE "selHolding",
                 !.stockPrice = price,
                 !.tradePrice = tradePrice,
                 !.total = tradePrice * h[p].parsedQuantity])
  /\ UNCHANGED <<db, nreq, nfail, lite, funds, clock, others>>

\* ROLLBACK of the unknown-instrument path, then pool.query is issued.
RollbackUnknown(p) ==
  /\ h[p].pc = "rbUnknown"
  /\ Set(p, [h[p] EXCEPT !.pc = "listStocks"])
  /\ UNCHANGED <<db, nreq, nfail, lite, funds, clock, others>>

\* Mutant of AvailableStocks: the answer lists no instrument.
NoAvailableStocks == {}

\* allStocksResult.rows.map(row => row.id) of SELECT id FROM stocks
AvailableStocks == DOMAIN stocks

\* SELECT id FROM stocks, and the 404 answer.
ListStocks(p) ==
  /\ h[p].pc = "listStocks"
  /\ Answer(p, [Resp(404, "UnknownInstrument") EXCEPT !.availableStocks = AvailableStocks])
  /\ UNCHANGED <<db, nreq, nfail, lite, funds, clock, others>>

\* Mutants of the balance check: no check at all, and a check that also
\* rejects a cost equal to the balance.
NoFundsCheck(balance, totalCost) == FALSE
FundsCheckRejectsEqual(balance, totalCost) == balance <= totalCost

\* user.balance < totalCost
InsufficientFunds(balance, totalCost) == balance < totalCost

\* SELECT * FROM "user" WHERE id = 1 of a buy, and the balance check.  The
\* row exists in every reachable state (it is seeded and nothing deletes
\* it), so the branch that inserts a missing row never runs.
BuySelectUser(p) ==
  /\ h[p].pc = "selUser" /\ h[p].op = "buy"
  /\ user # <<>>
  /\ IF InsufficientFunds(user[1], h[p].total)
     THEN Set(p, [h[p] EXCEPT !.pc = "rollback", !.balance = user[1],
                    !.pend = <<[Resp(400, "InsufficientFunds") EXCEPT
                                  !.required = h[p].total, !.available = user[1]]>>])
     ELSE Set(p, [h[p] EXCEPT !.pc = "selHolding", !.balance = user[1]])
  /\ UNCHANGED <<db, nreq, nfail, lite, funds, clock, others>>

\* ROLLBACK before an early return, and the answer that was prepared.
Rollback(p) ==
  /\ h[p].pc = "rollback"
  /\ Answer(p, h[p].pend[1])
  /\ UNCHANGED <<db, nreq, nfail, lite, funds, clock, others>>

\* SELECT * FROM portfolio WHERE stockId = $1 of a buy.
BuySelectHolding(p) ==
  /\ h[p].pc = "selHolding" /\ h[p].op = "buy"
  /\ Set(p, [h[p] EXCEPT !.pc = "writeHolding", !.holding = HoldingRows(StockId(p))])
  /\ UNCHANGED <<db, nreq, nfail, lite, funds, clock, others>>

\* Mutant of NewAveragePrice: a further buy keeps the average cost.
NewAveragePriceKeepsOld(holding, parsedQuantity, totalCost) == holding.avg

\* newTotalCost / newQuantity of a buy into an existing position.
NewAveragePrice(holding, parsedQuantity, totalCost) ==
  Rat(holding.avg.n * holding.quantity + totalCost * holding.avg.d,
      holding.avg.d * (holding.quantity + parsedQuantity))

\* UPDATE portfolio ... WHERE id = $3, or INSERT INTO portfolio, of a buy.
BuyWriteHolding(p) ==
  /\ h[p].pc = "writeHolding" /\ h[p].op = "buy"
  /\ Blockers(p) = {}
  /\ IF h[p].holding # <<>>
     THEN LET hd == h[p].holding[1] IN
          /\ Set(p, [h[p] EXCEPT !.pc = "updUser",
                 !.w.port = IF RowExists(hd.id)
                            THEN [op |-> "update", id |-> hd.id, stockId |-> hd.stockId,
                                  quantity |-> hd.quantity + h[p].parsedQuantity,
                                  avg |-> NewAveragePrice(hd, h[p].parsedQuantity, h[p].total)]
                            ELSE NoWrite])
          /\ UNCHANGED portfolioSeq
     ELSE /\ IF HoldingRows(StockId(p)) # <<>>
             THEN Set(p, [h[p] EXCEPT !.pc = "catch", !.w = NoWrites])
             ELSE Set(p, [h[p] EXCEPT !.pc = "updUser",
                    !.w.port = [op |-> "insert", id |-> portfolioSeq,
                                stockId |-> StockId(p),
                                quantity |-> h[p].parsedQuantity,
                                avg |-> Rat(h[p].tradePrice, 1)]])
          /\ portfolioSeq' = portfolioSeq + 1
  /\ UNCHANGED <<stocks, user, portfolio, transactions, nreq, nfail, lite, funds, clock, others>>

\* Mutant of NewBalance: a trade of either side credits the balance.
NewBalanceAlwaysCredits(op, balance, total) == balance + total

\* user.balance - totalCost of a buy, user.balance + totalRevenue of a sell
NewBalance(op, balance, total) ==
  IF op = "buy" THEN balance - total ELSE balance + total

\* UPDATE "user" SET balance = $1 WHERE id = 1
UpdateUser(p) ==
  /\ h[p].pc = "updUser"
  /\ Blockers(p) = {}
  /\ LET newBalance == NewBalance(h[p].op, h[p].balance, h[p].total)
     IN Set(p, [h[p] EXCEPT
            !.pc = IF h[p].op = "buy" THEN "insTx" ELSE "writeHolding",
            !.newBalance = newBalance,
            !.w.user = <<newBalance>>])
  /\ UNCHANGED <<db, nreq, nfail, lite, funds, clock, others>>

\* Mutant of InsertTx: the entry of a buy gets a profitLoss value too.
InsertTxAlwaysProfit(p) ==
  /\ h[p].pc = "insTx"
  /\ Set(p, [h[p] EXCEPT !.pc = "commit",
         !.w.tx = <<[id |-> h[p].id, type |-> h[p].op, stockId |-> StockId(p),
                     quantity |-> h[p].parsedQuantity, price |-> h[p].tradePrice,
                     total |-> h[p].total, ts |-> clock,
                     profitLoss |-> <<h[p].profitLoss>>]>>])
  /\ UNCHANGED <<db, nreq, nfail, lite, funds, clock, others>>

\* INSERT INTO transactions
InsertTx(p) ==
  /\ h[p].pc = "insTx"
  /\ Set(p, [h[p] EXCEPT !.pc = "commit",
         !.w.tx = <<[id |-> h[p].id, type |-> h[p].op, stockId |-> StockId(p),
                     quantity |-> h[p].parsedQuantity, price |-> h[p].tradePrice,
                     total |-> h[p].total, ts |-> clock,
                     profitLoss |-> IF h[p].op = "sell" THEN <<h[p].profitLoss>>
                                    ELSE <<>>]>>])
  /\ UNCHANGED <<db, nreq, nfail, lite, funds, clock, others>>

\* The portfolio table once the row write wr is committed.
ApplyPort(rows, wr) ==
  IF wr.op = "insert"
  THEN rows \cup {[id |-> wr.id, stockId |-> wr.stockId,
                   quantity |-> wr.quantity, avg |-> wr.avg]}
  ELSE IF wr.op = "update"
  THEN {IF r.id = wr.id THEN [r EXCEPT !.quantity = wr.quantity, !.avg = wr.avg]
        ELSE r : r \in rows}
  ELSE IF wr.op = "delete" THEN {r \in rows : r.id # wr.id}
  ELSE rows

\* Mutant of Commit: a settled trade also stores its price in the catalog.
CommitWritesPrice(p) ==
  /\ h[p].pc = "commit"
  /\ user' = IF h[p].w.user # <<>> THEN h[p].w.user ELSE user
  /\ portfolio' = ApplyPort(portfolio, h[p].w.port)
  /\ transactions' = transactions \o h[p].w.tx
  /\ stocks' = [stocks EXCEPT ![StockId(p)] = h[p].tradePrice]
  /\ Answer(p, [Resp(200, "success") EXCEPT !.tx = h[p].w.tx,
                                            !.newBalance = h[p].newBalance])
  /\ UNCHANGED <<portfolioSeq, nreq, nfail, lite, funds, clock, others>>

\* COMMIT, and the answer of a settled trade.
Commit(p) ==
  /\ h[p].pc = "commit"
  /\ user' = IF h[p].w.user # <<>> THEN h[p].w.user ELSE user
  /\ portfolio' = ApplyPort(portfolio, h[p].w.port)
  /\ transactions' = transactions \o h[p].w.tx
  /\ Answer(p, [Resp(200, "success") EXCEPT !.tx = h[p].w.tx,
                                            !.newBalance = h[p].newBalance])
  /\ UNCHANGED <<stocks, portfolioSeq, nreq, nfail, lite, funds, clock, others>>

\* Mutant of the position check: it also rejects a sale of all that is held.
PositionCheckRejectsEqual(held, parsedQuantity) == held <= parsedQuantity

\* holding.quantity < parsedQuantity
InsufficientPosition(held, parsedQuantity) == held < parsedQuantity

\* Mutant of ProfitLoss: the revenue is recorded, the cost is not taken off.
ProfitLossIsRevenue(tradePrice, avg, parsedQuantity) == tradePrice * parsedQuantity

\* parseFloat(((tradePrice - holding.averageprice) * parsedQuantity).toFixed(2))
ProfitLoss(tradePrice, avg, parsedQuantity) ==
  RoundDiv((tradePrice * avg.d - avg.n) * parsedQuantity, avg.d)

\* SELECT * FROM portfolio WHERE stockId = $1 of a sell, and the checks of
\* the held quantity.
SellSelectHolding(p) ==
  /\ h[p].pc = "selHolding" /\ h[p].op = "sell"
  /\ LET rows == HoldingRows(StockId(p)) IN
     IF rows = <<>>
     THEN Set(p, [h[p] EXCEPT !.pc = "rollback", !.pend = <<Resp(400, "NoHolding")>>])
     ELSE IF InsufficientPosition(rows[1].quantity, h[p].parsedQuantity)
     THEN Set(p, [h[p] EXCEPT !.pc = "rollback", !.holding = rows,
                    !.pend = <<[Resp(400, "InsufficientPosition") EXCEPT
                                  !.available = rows[1].quantity,
                                  !.requested = h[p].parsedQuantity]>>])
     ELSE Set(p, [h[p] EXCEPT !.pc = "selUser", !.holding = rows,
                    !.profitLoss =
                      ProfitLoss(h[p].tradePrice, rows[1].avg, h[p].parsedQuantity)])
  /\ UNCHANGED <<db, nreq, nfail, lite, funds, clock, others>>

\* SELECT * FROM "user" WHERE id = 1 of a sell.
SellSelectUser(p) ==
  /\ h[p].pc = "selUser" /\ h[p].op = "sell"
  /\ IF user = <<>>
     THEN Set(p, [h[p] EXCEPT !.pc = "rollback", !.pend = <<Resp(500, "NoUser")>>])
     ELSE Set(p, [h[p] EXCEPT !.pc = "updUser", !.balance = user[1]])
  /\ UNCHANGED <<db, nreq, nfail, lite, funds, clock, others>>

\* Mutant of RemainingQuantity: the sold units are not taken off.
RemainingIsHeld(held, parsedQuantity) == held

\* holding.quantity - parsedQuantity
RemainingQuantity(held, parsedQuantity) == held - parsedQuantity

\* Mutant of SoldOut: the record is always updated, never deleted.
NeverSoldOut(held, parsedQuantity) == FALSE

\* holding.quantity === parsedQuantity
SoldOut(held, parsedQuantity) == held = parsedQuantity

\* DELETE FROM portfolio WHERE id = $1, or UPDATE portfolio SET quantity,
\* of a sell.
SellWriteHolding(p) ==
  /\ h[p].pc = "writeHolding" /\ h[p].op = "sell"
  /\ Blockers(p) = {}
  /\ LET hd == h[p].holding[1] IN
     Set(p, [h[p] EXCEPT !.pc = "insTx",
         !.w.port = IF ~RowExists(hd.id) THEN NoWrite
                    ELSE IF SoldOut(hd.quantity, h[p].parsedQuantity)
                    THEN [NoWrite EXCEPT !.op = "delete", !.id = hd.id]
                    ELSE [op |-> "update", id |-> hd.id, stockId |-> hd.stockId,
                          quantity |-> RemainingQuantity(hd.quantity, h[p].parsedQuantity),
                          avg |-> RowOf(hd.id).avg]])
  /\ UNCHANGED <<db, nreq, nfail, lite, funds, clock, others>>

\* ------------------------------------------------- failures
InTry ==
  {"begin", "selStock", "rbUnknown", "listStocks", "selUser", "selHolding",
   "writeHolding", "updUser", "insTx", "commit", "rollback"}

\* Mutant of QueryFails: the statements were not run inside a transaction,
\* so what was written before the failure stays.
QueryFailsKeepsWrites(p) ==
  /\ h[p].pc \in InTry
  /\ nfail < MaxFailures
  /\ \E lost \in BOOLEAN :
       Set(p, [h[p] EXCEPT !.pc = "catch", !.w = NoWrites, !.lost = lost])
  /\ user' = IF h[p].w.user # <<>> THEN h[p].w.user ELSE user
  /\ portfolio' = ApplyPort(portfolio, h[p].w.port)
  /\ transactions' = transactions \o h[p].w.tx
  /\ nfail' = nfail + 1
  /\ UNCHANGED <<stocks, portfolioSeq, nreq, lite, funds, clock, others>>

\* A persistence call of a trade throws: the transaction is aborted by the
\* server and control passes to the catch block.  lost tells whether the
\* connection is gone, in which case the ROLLBACK of the catch block
\* throws as well.
QueryFails(p) ==
  /\ h[p].pc \in InTry
  /\ nfail < MaxFailures
  /\ \E lost \in BOOLEAN :
       Set(p, [h[p] EXCEPT !.pc = "catch", !.w = NoWrites, !.lost = lost])
  /\ nfail' = nfail + 1
  /\ UNCHANGED <<db, nreq, lite, funds, clock, others>>

\* The server ends a wait cycle by failing the statement of one waiter.
Deadlock(p) ==
  /\ Blockers(p) # {}
  /\ Deadlocked(p)
  /\ Set(p, [h[p] EXCEPT !.pc = "catch", !.w = NoWrites])
  /\ UNCHANGED <<db, nreq, nfail, lite, funds, clock, others>>

\* catch: await ROLLBACK, then the 500 answer; when the ROLLBACK throws,
\* the handler's promise rejects and the request gets no answer.
Catch(p) ==
  /\ h[p].pc = "catch"
  /\ IF h[p].lost
     THEN Reject(p)
     ELSE Answer(p, Resp(500, "ServerError"))
  /\ UNCHANGED <<db, nreq, nfail, lite, funds, clock, others>>

\* ------------------------------------------------- /api/stocks/update-price
ReceivePrice(p, B) ==
  /\ Free(p)
  /\ nreq < MaxRequests
  /\ \E b \in B :
       LET r  == [Idle EXCEPT !.op = "setPrice", !.id = nreq + 1, !.body = b]
           sv == validateStockId(b.stockId)
           pv == validatePrice(b.price)
       IN IF ~sv.valid
          THEN Set(p, [r EXCEPT !.pc = "done", !.resp = <<Resp(400, "InvalidStockId")>>])
          ELSE IF ~pv.valid
          THEN Set(p, [r EXCEPT !.pc = "done", !.resp = <<Resp(400, "InvalidPrice")>>])
          ELSE Set(p, [r EXCEPT !.pc = "spSelect", !.parsedPrice = pv.parsed])
  /\ nreq' = nreq + 1
  /\ UNCHANGED <<db, nfail, lite, funds, clock, others>>

ReceiveSetPrice(p) == ReceivePrice(p, PriceBodies)

\* Mutant of SetPriceSelect: the update is issued whether or not the
\* instrument was found.
SetPriceSelectSkipsLookup(p) ==
  /\ h[p].pc = "spSelect"
  /\ Set(p, [h[p] EXCEPT !.pc = "spUpdate"])
  /\ UNCHANGED <<db, nreq, nfail, lite, funds, clock, others>>

\* SELECT * FROM stocks WHERE id = $1, and the test of rows.length.
SetPriceSelect(p) ==
  /\ h[p].pc = "spSelect"
  /\ Set(p, [h[p] EXCEPT !.pc = IF StockId(p) \in DOMAIN stocks
                                THEN "spUpdate" ELSE "spList"])
  /\ UNCHANGED <<db, nreq, nfail, lite, funds, clock, others>>

SetPriceList(p) ==
  /\ h[p].pc = "spList"
  /\ Answer(p, [Resp(404, "UnknownInstrument") EXCEPT !.availableStocks = AvailableStocks])
  /\ UNCHANGED <<db, nreq, nfail, lite, funds, clock, others>>

\* Mutant of SetPriceUpdate: the new price is also written to the ledger
\* entries of the instrument.
SetPriceUpdateRewritesLedger(p) ==
  /\ h[p].pc = "spUpdate"
  /\ stocks' = [stocks EXCEPT ![StockId(p)] = h[p].parsedPrice]
  /\ transactions' =
       [i \in 1 .. Len(transactions) |->
          IF transactions[i].stockId = StockId(p)
          THEN [transactions[i] EXCEPT !.price = h[p].parsedPrice]
          ELSE transactions[i]]
  /\ Answer(p, [Resp(200, "success") EXCEPT !.price = h[p].parsedPrice])
  /\ UNCHANGED <<user, portfolio, portfolioSeq, nreq, nfail, lite, funds, clock, others>>

\* Mutant of SetPriceUpdate: the UPDATE has no WHERE clause.
SetPriceUpdateAll(p) ==
  /\ h[p].pc = "spUpdate"
  /\ stocks' = [id \in DOMAIN stocks |-> h[p].parsedPrice]
  /\ Answer(p, [Resp(200, "success") EXCEPT !.price = h[p].parsedPrice])
  /\ UNCHANGED <<user, portfolio, portfolioSeq, transactions, nreq, nfail, lite, funds, clock, others>>

\* UPDATE stocks SET price = $1 WHERE id = $2 RETURNING *
SetPriceUpdate(p) ==
  /\ h[p].pc = "spUpdate"
  /\ stocks' = [stocks EXCEPT ![StockId(p)] = h[p].parsedPrice]
  /\ Answer(p, [Resp(200, "success") EXCEPT !.price = h[p].parsedPrice])
  /\ UNCHANGED <<user, portfolio, portfolioSeq, transactions, nreq, nfail, lite, funds, clock, others>>

\* A pool.query of update-price throws: its catch answers 500.
SetPriceFails(p) ==
  /\ h[p].pc \in {"spSelect", "spList", "spUpdate"}
  /\ nfail < MaxFailures
  /\ Answer(p, Resp(500, "ServerError"))
  /\ nfail' = nfail + 1
  /\ UNCHANGED <<db, nreq, lite, funds, clock, others>>

\* ------------------------------------------------- /api/transactions
\* Values of the query parameters page and limit.
NoQuery == [page |-> Undefined, limit |-> Undefined]

Queries == {[page |-> pg, limit |-> Str(<<"1">>)] : pg \in {Undefined, Str(<<"2">>)}}

\* parseInt(req.query.page) || 1 and parseInt(req.query.limit) || 20
QueryInt(x, default) ==
  IF x.t # "string" THEN default
  ELSE LET parsed == ParseInt(x.s)
       IN IF parsed.nan \/ parsed.v = 0 THEN default ELSE parsed.v

\* The handler of GET /api/transactions with its page and limit.
ListingRequest(id, q) ==
  [Idle EXCEPT !.pc = "txCount", !.op = "transactions", !.id = id,
               !.page = QueryInt(q.page, 1), !.limit = QueryInt(q.limit, 20)]

\* GET /api/transactions without query parameters: page 1 of 20 entries.
ReceiveTransactions(p) ==
  /\ Free(p)
  /\ nreq < MaxRequests
  /\ Set(p, ListingRequest(nreq + 1, NoQuery))
  /\ nreq' = nreq + 1
  /\ UNCHANGED <<db, nfail, lite, funds, clock, others>>

\* GET /api/transactions with query parameters, while no trade is running:
\* listings leave the database as it is and are not counted as requests.
ReceivePage(p) ==
  /\ Listening
  /\ Finished(p)
  /\ \A q \in Procs : h[q].op \in {"buy", "sell"} => Finished(q)
  /\ \E q \in Queries : Set(p, ListingRequest(0, q))
  /\ UNCHANGED <<db, nreq, nfail, lite, funds, clock, others>>

\* SELECT COUNT(*) FROM transactions
TransactionsCount(p) ==
  /\ h[p].pc = "txCount"
  /\ Set(p, [h[p] EXCEPT !.pc = "txSelect", !.total = Len(transactions)])
  /\ UNCHANGED <<db, nreq, nfail, lite, funds, clock, others>>

\* The orders ORDER BY timestamp DESC can give the rows of transactions in
\* (as positions of the table): later timestamps first, rows of equal
\* timestamp in any order, the statement naming no further sort key.
TimestampOrders ==
  {f \in [1 .. Len(transactions) -> 1 .. Len(transactions)] :
     /\ \A i, j \in 1 .. Len(transactions) : i # j => f[i] # f[j]
     /\ \A i, j \in 1 .. Len(transactions) :
          i < j => transactions[f[i]].ts >= transactions[f[j]].ts}

\* Math.ceil(total / limit)
Pages(total, limit) == (total + limit - 1) \div limit

\* SELECT * FROM transactions ORDER BY timestamp DESC LIMIT $1 OFFSET $2, and
\* the answer.
TransactionsSelect(p) ==
  /\ h[p].pc = "txSelect"
  /\ LET offset == (h[p].page - 1) * h[p].limit
         left   == Len(transactions) - offset
         count  == IF left < 0 THEN 0 ELSE IF left < h[p].limit THEN left ELSE h[p].limit
     IN IF offset < 0 \/ h[p].limit < 0
        THEN Answer(p, Resp(500, "ServerError"))
        ELSE \E f \in TimestampOrders :
               LET rows == [i \in 1 .. count |-> transactions[f[offset + i]]]
               IN Answer(p, [Resp(200, "success") EXCEPT
                               !.transactions = {rows[i] : i \in 1 .. count},
                               !.rows = rows,
                               !.total = h[p].total,
                               !.page = h[p].page, !.limit = h[p].limit,
                               !.pages = Pages(h[p].total, h[p].limit)])
  /\ UNCHANGED <<db, nreq, nfail, lite, funds, clock, others>>

\* A pool.query of /api/transactions throws: its catch answers 500.
TransactionsFails(p) ==
  /\ h[p].pc \in {"txCount", "txSelect"}
  /\ nfail < MaxFailures
  /\ Answer(p, Resp(500, "ServerError"))
  /\ nfail' = nfail + 1
  /\ UNCHANGED <<db, nreq, lite, funds, clock, others>>

\* ------------------------------------------------- /api/portfolio
\* userResult.rows[0] || { balance: 100000 }
DefaultBalance == 10000000

\* stockPriceMap[holding.stockid] || 0
CurrentPrice(prices, sid) == IF sid \in DOMAIN prices THEN prices[sid] ELSE 0

RECURSIVE ValueOf(_, _, _)
\* totalValue: the sum of currentPrice * quantity over the rows in S.
ValueOf(S, prices, acc) ==
  IF S = {} THEN acc
  ELSE LET r == CHOOSE x \in S : TRUE
       IN ValueOf(S \ {r}, prices, acc + CurrentPrice(prices, r.stockId) * r.quantity)

RECURSIVE CostOf(_, _)
\* The sum of quantity * averagePrice over the position rows in S, as an
\* exact fraction (acc is the fraction summed so far).
CostOf(S, acc) ==
  IF S = {} THEN acc
  ELSE LET r == CHOOSE x \in S : TRUE
       IN CostOf(S \ {r}, Rat(acc.n * r.avg.d + r.quantity * r.avg.n * acc.d,
                              acc.d * r.avg.d))

RECURSIVE DivDigits(_, _, _, _)
\* k further decimal digits of a quotient with remainder r and divisor c.
DivDigits(r, c, k, acc) ==
  IF k = 0 THEN [q |-> acc, r |-> r]
  ELSE DivDigits((r * 10) % c, c, k - 1, acc * 10 + (r * 10) \div c)

\* ((a / c) * 100).toFixed(2) in hundredths of a percent (c > 0): a / c
\* to four decimal digits, halves rounded away from zero.
PercentOf(a, c) ==
  LET m  == IF a >= 0 THEN a ELSE -a
      dd == DivDigits(m % c, c, 4, m \div c)
      v  == dd.q + (IF 2 * dd.r >= c THEN 1 ELSE 0)
  IN IF a >= 0 THEN v ELSE -v

\* parseFloat(((profitLoss / cost) * 100).toFixed(2)), in hundredths of a
\* percent; profitLoss = plNum / d, cost = costNum / d and value =
\* valueNum / d.  A division by a cost of 0 gives NaN or an Infinity, which
\* JSON.stringify writes as null.
StockPercent(plNum, costNum, valueNum) ==
  IF costNum = 0 THEN NaN ELSE Val(PercentOf(plNum, costNum))

\* The entry of one holding in portfolioStats.stocks.
StockStats(r, prices) ==
  LET currentPrice == CurrentPrice(prices, r.stockId)
      value        == currentPrice * r.quantity
      costNum      == r.avg.n * r.quantity
      plNum        == value * r.avg.d - costNum
  IN [stockId |-> r.stockId, quantity |-> r.quantity, averagePrice |-> r.avg,
      currentPrice |-> currentPrice, value |-> value,
      profitLoss |-> RoundDiv(plNum, r.avg.d),
      profitLossPercent |-> StockPercent(plNum, costNum, value * r.avg.d)]

\* Mutant of PortfolioStats: without a cost the total percentage is 100.
PortfolioStatsNoCostIsFull(balance, rows, prices) ==
  LET entries    == {StockStats(r, prices) : r \in rows}
      totalValue == ValueOf(rows, prices, 0)
      totalCost  == CostOf(rows, Rat(0, 1))
      plNum      == totalValue * totalCost.d - totalCost.n
  IN [balance |-> balance, portfolioValue |-> totalValue,
      totalAssets |-> balance + totalValue,
      stocks |-> entries, totalValue |-> totalValue,
      totalCost |-> RoundDiv(totalCost.n, totalCost.d),
      totalProfitLoss |-> RoundDiv(plNum, totalCost.d),
      totalProfitLossPercent |->
        IF totalCost.n > 0 THEN PercentOf(plNum, totalCost.n) ELSE 10000]

\* Mutant of PortfolioStats: the totals add up the rounded amounts of the
\* entries.
PortfolioStatsOfRounded(balance, rows, prices) ==
  LET entries    == {StockStats(r, prices) : r \in rows}
      totalValue == ValueOf(rows, prices, 0)
      totalCost  ==
        CostOf({[stockId |-> r.stockId, quantity |-> 1,
                 avg |-> Rat(RoundDiv(r.avg.n * r.quantity, r.avg.d), 1)] : r \in rows},
               Rat(0, 1))
      plNum      == totalValue * totalCost.d - totalCost.n
  IN [balance |-> balance, portfolioValue |-> totalValue,
      totalAssets |-> balance + totalValue,
      stocks |-> entries, totalValue |-> totalValue,
      totalCost |-> RoundDiv(totalCost.n, totalCost.d),
      totalProfitLoss |-> RoundDiv(plNum, totalCost.d),
      totalProfitLossPercent |->
        IF totalCost.n > 0 THEN PercentOf(plNum, totalCost.n) ELSE 0]

\* The answer of the portfolio view: the amounts are summed exactly and
\* each is rounded with toFixed(2) where it is put in the answer.
PortfolioStats(balance, rows, prices) ==
  LET entries    == {StockStats(r, prices) : r \in rows}
      totalValue == ValueOf(rows, prices, 0)
      totalCost  == CostOf(rows, Rat(0, 1))
      plNum      == totalValue * totalCost.d - totalCost.n
  IN [balance |-> balance, portfolioValue |-> totalValue,
      totalAssets |-> balance + totalValue,
      stocks |-> entries, totalValue |-> totalValue,
      totalCost |-> RoundDiv(totalCost.n, totalCost.d),
      totalProfitLoss |-> RoundDiv(plNum, totalCost.d),
      totalProfitLossPercent |->
        IF totalCost.n > 0 THEN PercentOf(plNum, totalCost.n) ELSE 0]

\* GET /api/portfolio arrives; the handler uses pool.query, which takes any
\* idle client of the pool.
ReceivePortfolio(p) ==
  /\ Listening
  /\ Finished(p)
  /\ nreq < MaxRequests
  /\ Set(p, [Idle EXCEPT !.pc = "pfUser", !.op = "portfolio", !.id = nreq + 1])
  /\ nreq' = nreq + 1
  /\ UNCHANGED <<db, nfail, lite, funds, clock, others>>

\* SELECT * FROM "user" WHERE id = 1
PortfolioSelectUser(p) ==
  /\ h[p].pc = "pfUser"
  /\ Set(p, [h[p] EXCEPT !.pc = "pfHoldings",
         !.balance = IF user = <<>> THEN DefaultBalance ELSE user[1]])
  /\ UNCHANGED <<db, nreq, nfail, lite, funds, clock, others>>

\* SELECT * FROM portfolio
PortfolioSelectHoldings(p) ==
  /\ h[p].pc = "pfHoldings"
  /\ Set(p, [h[p] EXCEPT !.pc = "pfStocks", !.rows = portfolio])
  /\ UNCHANGED <<db, nreq, nfail, lite, funds, clock, others>>

\* SELECT id, price FROM stocks, the statistics and the answer.
PortfolioSelectStocks(p) ==
  /\ h[p].pc = "pfStocks"
  /\ Answer(p, [Resp(200, "success") EXCEPT
                  !.view = <<PortfolioStats(h[p].balance, h[p].rows, stocks)>>])
  /\ UNCHANGED <<db, nreq, nfail, lite, funds, clock, others>>

\* A pool.query of the portfolio view throws: its catch answers 500.
PortfolioFails(p) ==
  /\ h[p].pc \in {"pfUser", "pfHoldings", "pfStocks"}
  /\ nfail < MaxFailures
  /\ Answer(p, Resp(500, "ServerError"))
  /\ nfail' = nfail + 1
  /\ UNCHANGED <<db, nreq, lite, funds, clock, others>>

\* ------------------------------------------------- user_funds server
\* insert([{ balance: 100000.00 }]) of getCurrentBalance
FundsDefault == 10000000

\* getCurrentBalance: the first row of user_funds; when the table has no
\* row (PGRST116) a row with the default balance is inserted and returned.
\* The result is the table after the call and the balance returned.
getCurrentBalance(rows) ==
  IF rows = <<>>
  THEN [rows |-> <<FundsDefault>>, balance |-> FundsDefault]
  ELSE [rows |-> rows, balance |-> rows[1]]

\* GET /api/portfolio of the server that keeps the balance in user_funds:
\* getCurrentBalance, then the statistics of its holdings (it has none:
\* the trades of this server are not part of the model).
FundsPortfolio ==
  /\ LET got == getCurrentBalance(funds.rows)
     IN funds' = [funds EXCEPT
                    !.rows = got.rows,
                    !.req = [op |-> "portfolio", body |-> Body(Undefined, Undefined, Undefined)],
                    !.resp = <<[Resp(200, "success") EXCEPT
                                  !.view = <<PortfolioStats(got.balance, funds.portfolio,
                                               [id \in Stocks |-> SeedPrice(id)])>>]>>]
  /\ UNCHANGED <<db, h, nreq, nfail, lite, clock, others>>

\* validateQuantity of the user_funds server: parseInt and the lot test.
FundsValidateQuantity(quantity) ==
  LET parsed == ParseInt(ToStr(quantity))
  IN IF parsed.nan \/ parsed.v <= 0 \/ parsed.v % LotSize # 0
     THEN [valid |-> FALSE, parsed |-> <<>>]
     ELSE [valid |-> TRUE, parsed |-> <<parsed.v>>]

\* validatePrice of the user_funds server: { valid: false, message } has
\* no field parsed (<<>> stands for undefined and for null).
FundsValidatePrice(price) ==
  LET parsed == ParseFloat(ToStr(price))
  IN IF parsed.nan \/ parsed.v <= 0
     THEN [valid |-> FALSE, parsed |-> <<>>]
     ELSE [valid |-> TRUE, parsed |-> <<parsed.v>>]

\* Bodies of the trades of the user_funds server, and the Supabase call
\* of a trade that returns an error, if any.
FundsBodies ==
  {Body(Str(i), Num(10000), pr) :
     i \in {"600036", UnknownStock},
     pr \in {Undefined, Num(50000), Num(0), Str(Chars("a", "b", "c"))}}

FundsFailures == {"none", "holding", "write", "tx"}

\* updateBalance(amount): getCurrentBalance, then the UPDATE of row 1 (the
\* trades call it only with a result that is not negative).
updateBalance(rows, amount) ==
  <<getCurrentBalance(rows).balance + amount>>

FundsHolding(sid) ==
  IF \E r \in funds.portfolio : r.stockId = sid
  THEN <<CHOOSE r \in funds.portfolio : r.stockId = sid>>
  ELSE <<>>

\* The answer of a trade of the user_funds server and the tables it leaves.
FundsAnswer(op, b, rws, port, txs, r) ==
  funds' = [rows |-> rws, portfolio |-> port, transactions |-> txs,
            n |-> funds.n + 1, req |-> [op |-> op, body |-> b], resp |-> <<r>>]

\* POST /api/buy of the user_funds server.
FundsBuy ==
  /\ funds.n < MaxRequests
  /\ \E b \in FundsBodies, fail \in FundsFailures :
       LET qty         == FundsValidateQuantity(b.quantity)
           parsedPrice == IF b.price.t # "undefined"
                          THEN FundsValidatePrice(b.price).parsed ELSE <<>>
           sid         == b.stockId.s
           tradePrice  == IF parsedPrice # <<>> THEN parsedPrice[1] ELSE SeedPrice(sid)
           totalCost   == tradePrice * qty.parsed[1]
           got         == getCurrentBalance(funds.rows)
           debited     == updateBalance(got.rows, -totalCost)
           holding     == FundsHolding(sid)
           written     ==
             IF holding # <<>>
             THEN (funds.portfolio \ {holding[1]}) \cup
                  {[holding[1] EXCEPT
                      !.quantity = holding[1].quantity + qty.parsed[1],
                      !.avg = NewAveragePrice(holding[1], qty.parsed[1], totalCost)]}
             ELSE funds.portfolio \cup
                  {[id |-> funds.n + 1, stockId |-> sid, quantity |-> qty.parsed[1],
                    avg |-> Rat(tradePrice, 1)]}
           tx          == [id |-> funds.n + 1, type |-> "buy", stockId |-> sid,
                           quantity |-> qty.parsed[1], price |-> tradePrice,
                           total |-> totalCost, profitLoss |-> <<>>]
       IN IF ~validateStockId(b.stockId).valid
          THEN FundsAnswer("buy", b, funds.rows, funds.portfolio, funds.transactions,
                           Resp(400, "InvalidStockId"))
          ELSE IF ~qty.valid
          THEN FundsAnswer("buy", b, funds.rows, funds.portfolio, funds.transactions,
                           Resp(400, "InvalidQuantity"))
          ELSE IF sid \notin Stocks
          THEN FundsAnswer("buy", b, funds.rows, funds.portfolio, funds.transactions,
                           Resp(404, "UnknownInstrument"))
          ELSE IF got.balance < totalCost
          THEN FundsAnswer("buy", b, got.rows, funds.portfolio, funds.transactions,
                           Resp(400, "InsufficientFunds"))
          ELSE IF fail = "holding"
          THEN FundsAnswer("buy", b, debited, funds.portfolio, funds.transactions,
                           Resp(500, "ServerError"))
          ELSE IF fail = "write"
          THEN FundsAnswer("buy", b, debited, funds.portfolio, funds.transactions,
                           Resp(500, "ServerError"))
          ELSE IF fail = "tx"
          THEN FundsAnswer("buy", b, debited, written, funds.transactions,
                           Resp(500, "ServerError"))
          ELSE FundsAnswer("buy", b, debited, written, Append(funds.transactions, tx),
                           [Resp(200, "success") EXCEPT !.tx = <<tx>>,
                                                        !.newBalance = debited[1]])
  /\ UNCHANGED <<db, h, nreq, nfail, lite, clock, others>>

\* POST /api/sell of the user_funds server.
FundsSell ==
  /\ funds.n < MaxRequests
  /\ \E b \in FundsBodies, fail \in FundsFailures \ {"holding"} :
       LET qty          == FundsValidateQuantity(b.quantity)
           priceCheck   == FundsValidatePrice(b.price)
           sid          == b.stockId.s
           tradePrice   == priceCheck.parsed[1]
           totalRevenue == tradePrice * qty.parsed[1]
           holding      == FundsHolding(sid)
           profitLoss   == ProfitLoss(tradePrice, holding[1].avg, qty.parsed[1])
           credited     == updateBalance(funds.rows, totalRevenue)
           written      ==
             IF holding[1].quantity = qty.parsed[1]
             THEN funds.portfolio \ {holding[1]}
             ELSE (funds.portfolio \ {holding[1]}) \cup
                  {[holding[1] EXCEPT !.quantity = holding[1].quantity - qty.parsed[1]]}
           tx           == [id |-> funds.n + 1, type |-> "sell", stockId |-> sid,
                            quantity |-> qty.parsed[1], price |-> tradePrice,
                            total |-> totalRevenue, profitLoss |-> <<profitLoss>>]
       IN IF ~validateStockId(b.stockId).valid
          THEN FundsAnswer("sell", b, funds.rows, funds.portfolio, funds.transactions,
                           Resp(400, "InvalidStockId"))
          ELSE IF ~qty.valid
          THEN FundsAnswer("sell", b, funds.rows, funds.portfolio, funds.transactions,
                           Resp(400, "InvalidQuantity"))
          ELSE IF ~priceCheck.valid
          THEN FundsAnswer("sell", b, funds.rows, funds.portfolio, funds.transactions,
                           Resp(400, "InvalidPrice"))
          ELSE IF sid \notin Stocks
          THEN FundsAnswer("sell", b, funds.rows, funds.portfolio, funds.transactions,
                           Resp(404, "UnknownInstrument"))
          ELSE IF holding = <<>>
          THEN FundsAnswer("sell", b, funds.rows, funds.portfolio, funds.transactions,
                           Resp(400, "NoHolding"))
          ELSE IF holding[1].quantity < qty.parsed[1]
          THEN FundsAnswer("sell", b, funds.rows, funds.portfolio, funds.transactions,
                           Resp(400, "InsufficientPosition"))
          ELSE IF fail = "write"
          THEN FundsAnswer("sell", b, credited, funds.portfolio, funds.transactions,
                           Resp(500, "ServerError"))
          ELSE IF fail = "tx"
          THEN FundsAnswer("sell", b, credited, written, funds.transactions,
                           Resp(500, "ServerError"))
          ELSE FundsAnswer("sell", b, credited, written, Append(funds.transactions, tx),
                           [Resp(200, "success") EXCEPT !.tx = <<tx>>,
                                                        !.newBalance = credited[1]])
  /\ UNCHANGED <<db, h, nreq, nfail, lite, clock, others>>

\* ------------------------------------------------- Supabase server
\* Bodies of the trades of the Supabase server.
SupaBodies ==
  {Body(Str(i), Num(10000), pr) :
     i \in {"600036", UnknownStock}, pr \in {Undefined, Num(50000), Num(0)}}

\* What an awaited write of the Supabase client does: it is applied, or it
\* resolves to { error } and is not applied, or the promise rejects.  The
\* handlers read no field of the result of a write.
SupaOutcomes == [{"position", "balance", "ledger"} -> {"ok", "error", "throws"}]

\* The writes of a trade that are awaited, in the order order, before one
\* of them rejects, and whether one rejects.
RECURSIVE SupaAwaited(_, _)
SupaAwaited(order, o) ==
  IF order = <<>> THEN <<>>
  ELSE IF o[Head(order)] = "throws" THEN <<>>
  ELSE <<Head(order)>> \o SupaAwaited(Tail(order), o)

SupaApplied(order, o) ==
  {w \in {"position", "balance", "ledger"} :
     /\ \E i \in 1 .. Len(SupaAwaited(order, o)) : SupaAwaited(order, o)[i] = w
     /\ o[w] = "ok"}

SupaThrows(order, o) == Len(SupaAwaited(order, o)) < Len(order)

SupaHolding(sid) ==
  IF \E r \in supa.portfolio : r.stockId = sid
  THEN <<CHOOSE r \in supa.portfolio : r.stockId = sid>>
  ELSE <<>>

\* The answer of a trade of the Supabase server and the tables it leaves.
SupaAnswer(op, b, usr, port, txs, done, r) ==
  supa' = [user |-> usr, portfolio |-> port, transactions |-> txs,
           n |-> supa.n + 1, req |-> [op |-> op, body |-> b],
           applied |-> done, resp |-> <<r>>]

SupaRefuse(op, b, r) ==
  SupaAnswer(op, b, supa.user, supa.portfolio, supa.transactions, {}, r)

\* The tables after the writes of a trade that were applied, and its answer.
SupaSettle(op, b, order, o, usr, port, tx, newBalance) ==
  LET done == SupaApplied(order, o)
  IN SupaAnswer(op, b,
       IF "balance" \in done THEN usr ELSE supa.user,
       IF "position" \in done THEN port ELSE supa.portfolio,
       IF "ledger" \in done THEN Append(supa.transactions, tx) ELSE supa.transactions,
       done,
       IF SupaThrows(order, o) THEN Resp(500, "ServerError")
       ELSE [Resp(200, "success") EXCEPT !.tx = <<tx>>, !.newBalance = newBalance])

\* POST /api/buy of the Supabase server: the position, then the balance,
\* then the ledger entry.
SupaBuy ==
  /\ supa.n < MaxRequests
  /\ \E b \in SupaBodies, o \in SupaOutcomes :
       LET sv         == validateStockId(b.stockId)
           qv         == validateQuantity(b.quantity)
           pv         == validatePrice(b.price)
           sid        == b.stockId.s
           tradePrice == TradePrice(IF b.price.t # "undefined" THEN pv.parsed ELSE 0,
                                    SeedPrice(sid))
           totalCost  == tradePrice * qv.parsed
           holding    == SupaHolding(sid)
           port       ==
             IF holding # <<>>
             THEN (supa.portfolio \ {holding[1]}) \cup
                  {[holding[1] EXCEPT
                      !.quantity = holding[1].quantity + qv.parsed,
                      !.avg = NewAveragePrice(holding[1], qv.parsed, totalCost)]}
             ELSE supa.portfolio \cup
                  {[id |-> supa.n + 1, stockId |-> sid, quantity |-> qv.parsed,
                    avg |-> Rat(tradePrice, 1)]}
           newBalance == supa.user[1] - totalCost
           tx         == [id |-> supa.n + 1, type |-> "buy", stockId |-> sid,
                          quantity |-> qv.parsed, price |-> tradePrice,
                          total |-> totalCost, profitLoss |-> <<>>]
       IN IF ~sv.valid THEN SupaRefuse("buy", b, Resp(400, "InvalidStockId"))
          ELSE IF ~qv.valid THEN SupaRefuse("buy", b, Resp(400, "InvalidQuantity"))
          ELSE IF b.price.t # "undefined" /\ ~pv.valid
          THEN SupaRefuse("buy", b, Resp(400, "InvalidPrice"))
          ELSE IF sid \notin Stocks
          THEN SupaRefuse("buy", b, [Resp(404, "UnknownInstrument")
                                       EXCEPT !.availableStocks = Stocks])
          ELSE IF InsufficientFunds(supa.user[1], totalCost)
          THEN SupaRefuse("buy", b, [Resp(400, "InsufficientFunds")
                                       EXCEPT !.required = totalCost,
                                              !.available = supa.user[1]])
          ELSE SupaSettle("buy", b, <<"position", "balance", "ledger">>, o,
                          <<newBalance>>, port, tx, newBalance)
  /\ UNCHANGED <<db, h, nreq, nfail, lite, funds, clock, files, pool, env, boot>>

\* POST /api/sell of the Supabase server: the balance, then the position,
\* then the ledger entry.
SupaSell ==
  /\ supa.n < MaxRequests
  /\ \E b \in SupaBodies, o \in SupaOutcomes :
       LET sv           == validateStockId(b.stockId)
           qv           == validateQuantity(b.quantity)
           pv           == validatePrice(b.price)
           sid          == b.stockId.s
           holding      == SupaHolding(sid)
           tradePrice   == TradePrice(IF b.price.t # "undefined" THEN pv.parsed ELSE 0,
                                      SeedPrice(sid))
           totalRevenue == tradePrice * qv.parsed
           profitLoss   == ProfitLoss(tradePrice, holding[1].avg, qv.parsed)
           newBalance   == supa.user[1] + totalRevenue
           port         ==
             IF holding[1].quantity = qv.parsed
             THEN supa.portfolio \ {holding[1]}
             ELSE (supa.portfolio \ {holding[1]}) \cup
                  {[holding[1] EXCEPT !.quantity = holding[1].quantity - qv.parsed]}
           tx           == [id |-> supa.n + 1, type |-> "sell", stockId |-> sid,
                            quantity |-> qv.parsed, price |-> tradePrice,
                            total |-> totalRevenue, profitLoss |-> <<profitLoss>>]
       IN IF ~sv.valid THEN SupaRefuse("sell", b, Resp(400, "InvalidStockId"))
          ELSE IF ~qv.valid THEN SupaRefuse("sell", b, Resp(400, "InvalidQuantity"))
          ELSE IF b.price.t # "undefined" /\ ~pv.valid
          THEN SupaRefuse("sell", b, Resp(400, "InvalidPrice"))
          ELSE IF sid \notin Stocks
          THEN SupaRefuse("sell", b, [Resp(404, "UnknownInstrument")
                                        EXCEPT !.availableStocks = Stocks])
          ELSE IF holding = <<>>
          THEN SupaRefuse("sell", b, Resp(400, "NoHolding"))
          ELSE IF holding[1].quantity < qv.parsed
          THEN SupaRefuse("sell", b, [Resp(400, "InsufficientPosition")
                                        EXCEPT !.available = holding[1].quantity,
                                               !.requested = qv.parsed])
          ELSE SupaSettle("sell", b, <<"balance", "position", "ledger">>, o,
                          <<newBalance>>, port, tx, newBalance)
  /\ UNCHANGED <<db, h, nreq, nfail, lite, funds, clock, files, pool, env, boot>>

\* Trades one at a time on the Supabase server.
NextSupa ==
  \/ SupaBuy
  \/ SupaSell

SpecSupa == Init /\ [][NextSupa]_vars

\* ------------------------------------------------- JSON-file server
\* Bodies of the trades of the JSON-file server: 100 or 50 units of a
\* seeded or an unknown instrument, at 500.00 or at the catalog price.
FileBodies ==
  {Body(Str(i), Num(q), pr) :
     i \in {"600036", UnknownStock}, q \in {10000, 5000}, pr \in {Undefined, Num(50000)}}

\* !stockId || !quantity || quantity <= 0 || quantity % 100 !== 0, of a
\* body whose quantity is a number.
FileInvalid(b) ==
  \/ b.stockId.t # "string" \/ b.stockId.s = ""
  \/ b.quantity.h <= 0
  \/ b.quantity.h % (100 * LotSize) # 0

FileSet(p, rec) == files' = [files EXCEPT !.h[p] = rec]

FileFinished(p) == files.h[p].pc \in {"idle", "done"}

\* A trade arrives; the handler starts when the body is valid.
FileReceive(p) ==
  /\ FileFinished(p)
  /\ files.n < MaxRequests
  /\ \E op \in {"buy", "sell"}, b \in FileBodies :
       files' = [files EXCEPT
                   !.n = files.n + 1,
                   !.h[p] = IF FileInvalid(b)
                            THEN [FileIdle EXCEPT !.pc = "done", !.op = op, !.id = files.n + 1,
                                                  !.body = b,
                                                  !.resp = <<Resp(400, "InvalidRequest")>>]
                            ELSE [FileIdle EXCEPT !.pc = "readUser", !.op = op,
                                                  !.id = files.n + 1, !.body = b]]
  /\ UNCHANGED <<db, h, nreq, nfail, lite, funds, clock, supa, pool, env, boot>>

\* const user = await readData(USER_FILE)
FileReadUser(p) ==
  /\ files.h[p].pc = "readUser"
  /\ FileSet(p, [files.h[p] EXCEPT !.pc = "readTransactions", !.user = <<files.user>>])
  /\ UNCHANGED <<db, h, nreq, nfail, lite, funds, clock, supa, pool, env, boot>>

\* The user record and the ledger entry a buy computes from what it read.
FileBuyUpdate(f) ==
  LET sid       == f.body.stockId.s
      quantity  == f.body.quantity.h \div 100
      price     == IF f.body.price.t = "number" /\ f.body.price.h # 0
                   THEN f.body.price.h ELSE SeedPrice(sid)
      totalCost == price * quantity
      usr       == f.user[1]
      held      == {r \in usr.portfolio : r.stockId = sid}
      existing  == CHOOSE r \in held : TRUE
      port      == IF held # {}
                   THEN (usr.portfolio \ held) \cup
                        {[stockId |-> sid,
                          quantity |-> existing.quantity + quantity,
                          averagePrice |->
                            RoundDiv(existing.averagePrice * existing.quantity + totalCost,
                                     existing.quantity + quantity)]}
                   ELSE usr.portfolio \cup
                        {[stockId |-> sid, quantity |-> quantity, averagePrice |-> price]}
  IN IF usr.balance < totalCost
     THEN [ok |-> FALSE, error |-> "InsufficientFunds", user |-> usr, tx |-> <<>>]
     ELSE [ok |-> TRUE, error |-> "",
           user |-> [balance |-> usr.balance - totalCost, portfolio |-> port],
           tx |-> <<[id |-> f.id, type |-> "buy", stockId |-> sid, quantity |-> quantity,
                     price |-> price, total |-> totalCost]>>]

\* The user record and the ledger entry a sell computes from what it read.
FileSellUpdate(f) ==
  LET sid          == f.body.stockId.s
      quantity     == f.body.quantity.h \div 100
      usr          == f.user[1]
      held         == {r \in usr.portfolio : r.stockId = sid}
      holding      == CHOOSE r \in held : TRUE
      price        == IF f.body.price.t = "number" /\ f.body.price.h # 0
                      THEN f.body.price.h ELSE SeedPrice(sid)
      totalRevenue == price * quantity
      port         == IF holding.quantity = quantity
                      THEN usr.portfolio \ held
                      ELSE (usr.portfolio \ held) \cup
                           {[holding EXCEPT !.quantity = holding.quantity - quantity]}
  IN IF held = {}
     THEN [ok |-> FALSE, error |-> "NoHolding", user |-> usr, tx |-> <<>>]
     ELSE IF holding.quantity < quantity
     THEN [ok |-> FALSE, error |-> "InsufficientPosition", user |-> usr, tx |-> <<>>]
     ELSE [ok |-> TRUE, error |-> "",
           user |-> [balance |-> usr.balance + totalRevenue, portfolio |-> port],
           tx |-> <<[id |-> f.id, type |-> "sell", stockId |-> sid, quantity |-> quantity,
                     price |-> price, total |-> totalRevenue]>>]

\* getStock(stockId) and const transactions = await readData(TRANSACTIONS_FILE),
\* then the checks and the changes to the copy of the user record.
FileReadTransactions(p) ==
  /\ files.h[p].pc = "readTransactions"
  /\ LET f   == files.h[p]
         upd == IF f.op = "buy" THEN FileBuyUpdate(f) ELSE FileSellUpdate(f)
     IN IF f.body.stockId.s \notin Stocks
        THEN FileSet(p, [f EXCEPT !.pc = "done", !.resp = <<Resp(404, "UnknownInstrument")>>])
        ELSE IF ~upd.ok
        THEN FileSet(p, [f EXCEPT !.pc = "done", !.resp = <<Resp(400, upd.error)>>])
        ELSE FileSet(p, [f EXCEPT !.pc = "writeUser", !.user = <<upd.user>>,
                                  !.transactions = files.transactions, !.tx = upd.tx])
  /\ UNCHANGED <<db, h, nreq, nfail, lite, funds, clock, supa, pool, env, boot>>

\* await writeData(USER_FILE, user)
FileWriteUser(p) ==
  /\ files.h[p].pc = "writeUser"
  /\ files' = [files EXCEPT !.user = files.h[p].user[1],
                            !.h[p].pc = "writeTransactions"]
  /\ UNCHANGED <<db, h, nreq, nfail, lite, funds, clock, supa, pool, env, boot>>

\* transactions.push(transaction); await writeData(TRANSACTIONS_FILE,
\* transactions); then the success answer.
FileWriteTransactions(p) ==
  /\ files.h[p].pc = "writeTransactions"
  /\ files' = [files EXCEPT
                 !.transactions = files.h[p].transactions \o files.h[p].tx,
                 !.done = files.done \cup {files.h[p].tx[1]},
                 !.h[p].pc = "done",
                 !.h[p].resp = <<[Resp(200, "success") EXCEPT
                                    !.tx = files.h[p].tx,
                                    !.newBalance = files.h[p].user[1].balance]>>]
  /\ UNCHANGED <<db, h, nreq, nfail, lite, funds, clock, supa, pool, env, boot>>

\* Trades on the JSON-file server, the handlers interleaving at each await.
NextFiles ==
  \E p \in Procs :
    \/ FileReceive(p)
    \/ FileReadUser(p)
    \/ FileReadTransactions(p)
    \/ FileWriteUser(p)
    \/ FileWriteTransactions(p)

SpecFiles == Init /\ [][NextFiles]_vars

\* ------------------------------------------------- the connection pool
\* max of the pool, and the trades of an unknown instrument that arrive.
PoolMax == 20
MaxUnknown == 21

\* The clients no handler holds.  A handler on its way to the instrument
\* list holds one client.
PoolFree == PoolMax - pool.list

\* No client is free and none will be released: every client is held by
\* a handler that waits for a second one.  Only here does a wait last
\* connectionTimeoutMillis.
PoolStuck == pool.list = PoolMax

\* A buy or sell of an unknown instrument arrives and calls pool.connect().
PoolReceive ==
  /\ pool.n < MaxUnknown
  /\ pool' = [pool EXCEPT !.n = pool.n + 1, !.connect = pool.connect + 1]
  /\ UNCHANGED <<db, h, nreq, nfail, lite, funds, clock, supa, files, env, boot>>

\* pool.connect() resolves; the handler validates, runs BEGIN, finds no
\* instrument and runs ROLLBACK on its client, which it keeps.
PoolConnect ==
  /\ pool.connect > 0
  /\ PoolFree > 0
  /\ pool' = [pool EXCEPT !.connect = pool.connect - 1, !.list = pool.list + 1]
  /\ UNCHANGED <<db, h, nreq, nfail, lite, funds, clock, supa, files, env, boot>>

\* pool.query('SELECT id FROM stocks') gets a second client, runs and gives
\* it back; the handler answers 404 and releases its own client.
PoolList ==
  /\ pool.list > 0
  /\ PoolFree > 0
  /\ pool' = [pool EXCEPT !.list = pool.list - 1, !.ok = pool.ok + 1]
  /\ UNCHANGED <<db, h, nreq, nfail, lite, funds, clock, supa, files, env, boot>>

\* pool.query waits connectionTimeoutMillis and rejects: the catch block
\* runs ROLLBACK on the handler's client and answers 500, and the client
\* is released.
PoolListTimeout ==
  /\ pool.list > 0
  /\ PoolStuck
  /\ pool' = [pool EXCEPT !.list = pool.list - 1, !.err = pool.err + 1]
  /\ UNCHANGED <<db, h, nreq, nfail, lite, funds, clock, supa, files, env, boot>>

\* pool.connect() of a handler waits connectionTimeoutMillis and rejects,
\* outside the try block: the request gets no answer from the handler.
PoolConnectTimeout ==
  /\ pool.connect > 0
  /\ PoolStuck
  /\ pool' = [pool EXCEPT !.connect = pool.connect - 1, !.rejected = pool.rejected + 1]
  /\ UNCHANGED <<db, h, nreq, nfail, lite, funds, clock, supa, files, env, boot>>

\* Trades of an unknown instrument, any number in flight.
NextPool ==
  \/ PoolReceive
  \/ PoolConnect
  \/ PoolList
  \/ PoolListTimeout
  \/ PoolConnectTimeout

SpecPool == Init /\ [][NextPool]_vars

\* ------------------------------------------------- /api/reset
\* Values of process.env.NODE_ENV ("unset": the variable is not set).
EnvValues == {"development", "production", "unset"}

\* A reset arrives: it is refused unless NODE_ENV is development, else the
\* handler calls pool.connect().
ReceiveReset(p) ==
  /\ Free(p)
  /\ nreq < MaxRequests
  /\ LET r == [Idle EXCEPT !.op = "reset", !.id = nreq + 1]
     IN IF env # "development"
        THEN Set(p, [r EXCEPT !.pc = "done", !.resp = <<Resp(403, "Forbidden")>>])
        ELSE Set(p, [r EXCEPT !.pc = "rsConnect"])
  /\ nreq' = nreq + 1
  /\ UNCHANGED <<db, nfail, lite, funds, clock, others>>

\* Mutant of ResetRun: DELETE FROM portfolio is left out.
ResetRunKeepsPositions(p) ==
  /\ h[p].pc = "rsConnect"
  /\ transactions' = <<>>
  /\ user' = IF user = <<>> THEN <<>> ELSE <<InitialBalance>>
  /\ Answer(p, Resp(200, "success"))
  /\ UNCHANGED <<stocks, portfolio, portfolioSeq, nreq, nfail, lite, funds, clock, others>>

\* BEGIN, DELETE FROM transactions, DELETE FROM portfolio, UPDATE "user"
\* SET balance = 100000.00 WHERE id = 1, COMMIT, and the answer.
ResetRun(p) ==
  /\ h[p].pc = "rsConnect"
  /\ transactions' = <<>>
  /\ portfolio' = {}
  /\ user' = IF user = <<>> THEN <<>> ELSE <<InitialBalance>>
  /\ Answer(p, Resp(200, "success"))
  /\ UNCHANGED <<stocks, portfolioSeq, nreq, nfail, lite, funds, clock, others>>

\* pool.connect() rejects, or a statement of the reset throws: ROLLBACK and
\* the 500 answer, or no answer when the ROLLBACK throws as well.
ResetFails(p) ==
  /\ h[p].pc = "rsConnect"
  /\ nfail < MaxFailures
  /\ \/ Reject(p)
     \/ Answer(p, Resp(500, "ServerError"))
  /\ nfail' = nfail + 1
  /\ UNCHANGED <<db, nreq, lite, funds, clock, others>>

\* ------------------------------------------------- startServer
\* Failed connection tests in one behaviour.
MaxRetries == 1

\* The rows of INSERT INTO stocks of initDatabase (those of Stocks).
DefaultStocks == [id \in Stocks |-> SeedPrice(id)]

\* Whether PostgreSQL parses CREATE TABLE IF NOT EXISTS portfolio as it is
\* written: "averagePrice REAL NOT REAL NOT NULL" and "DEFAULT DEFAULT
\* CURRENT_TIMESTAMP" are syntax errors.
PortfolioTableParses == FALSE

\* initDatabase: the tables after it and what it returns.  The statement
\* that fails throws inside the transaction: ROLLBACK, return false.
initDatabase ==
  IF PortfolioTableParses
  THEN [ok |-> TRUE,
        stocks |-> IF DOMAIN stocks = {} THEN DefaultStocks ELSE stocks,
        user |-> IF user = <<>> THEN <<InitialBalance>> ELSE user]
  ELSE [ok |-> FALSE, stocks |-> stocks, user |-> user]

\* const dbConnected = await testDbConnection(), connected.
TestDbConnection ==
  /\ boot.phase = "start"
  /\ boot' = [boot EXCEPT !.phase = "init"]
  /\ UNCHANGED <<db, h, nreq, nfail, lite, funds, clock, supa, files, pool, env>>

\* testDbConnection() returns false: setTimeout(startServer, 5000).
TestDbConnectionFails ==
  /\ boot.phase = "start"
  /\ boot.tries < MaxRetries
  /\ boot' = [boot EXCEPT !.phase = "retry", !.tries = boot.tries + 1]
  /\ UNCHANGED <<db, h, nreq, nfail, lite, funds, clock, supa, files, pool, env>>

\* The timer fires: startServer runs again.
RetryStart ==
  /\ boot.phase = "retry"
  /\ boot' = [boot EXCEPT !.phase = "start"]
  /\ UNCHANGED <<db, h, nreq, nfail, lite, funds, clock, supa, files, pool, env>>

\* await initDatabase(); app.listen(PORT, ...): the value initDatabase
\* returns is not read.
InitDatabaseAndListen ==
  /\ boot.phase = "init"
  /\ stocks' = initDatabase.stocks
  /\ user' = initDatabase.user
  /\ boot' = [boot EXCEPT !.phase = "listening",
                          !.init = IF initDatabase.ok THEN "true" ELSE "false"]
  /\ UNCHANGED <<portfolio, portfolioSeq, transactions, h, nreq, nfail, lite, funds,
                 clock, supa, files, pool, env>>

\* A statement of initDatabase throws at run time: ROLLBACK, return false,
\* and app.listen all the same.
InitDatabaseFailsAndListen ==
  /\ boot.phase = "init"
  /\ nfail < MaxFailures
  /\ boot' = [boot EXCEPT !.phase = "listening", !.init = "failed"]
  /\ nfail' = nfail + 1
  /\ UNCHANGED <<db, h, nreq, lite, funds, clock, supa, files, pool, env>>

\* pool.connect() of initDatabase rejects: startServer's catch block calls
\* process.exit(1).
InitDatabaseThrows ==
  /\ boot.phase = "init"
  /\ boot' = [boot EXCEPT !.phase = "exited"]
  /\ UNCHANGED <<db, h, nreq, nfail, lite, funds, clock, supa, files, pool, env>>

\* ------------------------------------------------- better-sqlite3 server
\* /api/buy of the server that keeps its tables in a better-sqlite3
\* database.  The handler is synchronous, so a request is one step.  Its
\* bodies carry JSON numbers: 100 and 200 units at 10.00 and 20.00, 100
\* units at the catalog price, 150 units, and an unknown instrument.
LiteBodies ==
  {Body(Str("600036"), q, pr) : q \in {Num(10000), Num(20000)},
                                pr \in {Num(1000), Num(2000)}}
  \cup {Body(Str("600028"), Num(10000), Undefined),
        Body(Str("600036"), Num(15000), Num(1000)),
        Body(Str(UnknownStock), Num(10000), Num(1000))}

\* !stockId || !quantity || quantity <= 0 || quantity % 100 !== 0, for a
\* string stockId and a number quantity.
LiteInvalid(b) ==
  \/ b.stockId.s = ""
  \/ b.quantity.h = 0
  \/ b.quantity.h <= 0
  \/ b.quantity.h % (100 * LotSize) # 0

\* price || stock.price, for a number or an absent price.
LiteTradePrice(price, stockPrice) ==
  IF price.t = "number" /\ price.h # 0 THEN price.h ELSE stockPrice

LiteHolding(rows, sid) ==
  IF \E r \in rows : r.stockId = sid
  THEN <<CHOOSE r \in rows : r.stockId = sid>>
  ELSE <<>>

\* Mutant of LiteNewAveragePrice: the quotient is cut, not rounded.
LiteNewAveragePriceCut(holding, quantity, totalCost) ==
  (holding.averagePrice * holding.quantity + totalCost)
    \div (holding.quantity + quantity)

\* parseFloat((newTotalCost / newQuantity).toFixed(2))
LiteNewAveragePrice(holding, quantity, totalCost) ==
  RoundDiv(holding.averagePrice * holding.quantity + totalCost,
           holding.quantity + quantity)

LiteBuy ==
  /\ nreq < MaxRequests
  /\ nreq' = nreq + 1
  /\ \E b \in LiteBodies :
       LET sid        == b.stockId.s
           quantity   == b.quantity.h \div 100
           tradePrice == LiteTradePrice(b.price, lite.stocks[sid])
           totalCost  == tradePrice * quantity
           rows       == LiteHolding(lite.portfolio, sid)
           tx         == [id |-> nreq + 1, type |-> "buy", stockId |-> sid,
                          quantity |-> quantity, price |-> tradePrice,
                          total |-> totalCost, profitLoss |-> <<>>]
       IN IF LiteInvalid(b)
          THEN lite' = [lite EXCEPT !.resp = <<Resp(400, "InvalidRequest")>>]
          ELSE IF sid \notin DOMAIN lite.stocks
          THEN lite' = [lite EXCEPT !.resp = <<Resp(404, "UnknownInstrument")>>]
          ELSE IF lite.balance < totalCost
          THEN lite' = [lite EXCEPT !.resp = <<Resp(400, "InsufficientFunds")>>]
          ELSE lite' =
                 [lite EXCEPT
                    !.balance = lite.balance - totalCost,
                    !.portfolio =
                      IF rows # <<>>
                      THEN (lite.portfolio \ {rows[1]}) \cup
                           {[rows[1] EXCEPT
                               !.quantity = rows[1].quantity + quantity,
                               !.averagePrice =
                                 LiteNewAveragePrice(rows[1], quantity, totalCost)]}
                      ELSE lite.portfolio \cup
                           {[stockId |-> sid, quantity |-> quantity,
                             averagePrice |-> tradePrice]},
                    !.transactions = lite.transactions \o <<tx>>,
                    !.resp = <<[Resp(200, "success") EXCEPT
                                  !.tx = <<tx>>,
                                  !.newBalance = lite.balance - totalCost]>>]
  /\ UNCHANGED <<db, h, nfail, funds, clock, others>>

\* ------------------------------------------------- specification
Next ==
  \E p \in Procs :
    \/ ReceiveTrade(p)
    \/ Connect(p)
    \/ ConnectFails(p)
    \/ Begin(p)
    \/ SelectStock(p)
    \/ RollbackUnknown(p)
    \/ ListStocks(p)
    \/ BuySelectUser(p)
    \/ Rollback(p)
    \/ BuySelectHolding(p)
    \/ BuyWriteHolding(p)
    \/ UpdateUser(p)
    \/ InsertTx(p)
    \/ Commit(p)
    \/ SellSelectHolding(p)
    \/ SellSelectUser(p)
    \/ SellWriteHolding(p)
    \/ QueryFails(p)
    \/ Deadlock(p)
    \/ Catch(p)
    \/ ReceiveSetPrice(p)
    \/ SetPriceSelect(p)
    \/ SetPriceList(p)
    \/ SetPriceUpdate(p)
    \/ SetPriceFails(p)
    \/ ReceiveTransactions(p)
    \/ TransactionsCount(p)
    \/ TransactionsSelect(p)
    \/ TransactionsFails(p)

Spec == Init /\ [][Next]_vars

\* Trades and price updates that run one at a time on one connection slot,
\* with bodies drawn from the wide sets.
ReceiveTradeSeq == Receive(1, WideBodies)
ReceiveSetPriceSeq == ReceivePrice(1, WidePriceBodies)

NextSeq ==
  \/ ReceiveTradeSeq
  \/ ReceiveSetPriceSeq
  \/ Connect(1)
  \/ ConnectFails(1)
  \/ Begin(1)
  \/ SelectStock(1)
  \/ RollbackUnknown(1)
  \/ ListStocks(1)
  \/ BuySelectUser(1)
  \/ Rollback(1)
  \/ BuySelectHolding(1)
  \/ BuyWriteHolding(1)
  \/ UpdateUser(1)
  \/ InsertTx(1)
  \/ Commit(1)
  \/ SellSelectHolding(1)
  \/ SellSelectUser(1)
  \/ SellWriteHolding(1)
  \/ QueryFails(1)
  \/ Catch(1)
  \/ SetPriceSelect(1)
  \/ SetPriceList(1)
  \/ SetPriceUpdate(1)
  \/ SetPriceFails(1)

SpecSeq == Init /\ [][NextSeq]_vars

\* Requests that run one at a time on either server: the trades and price
\* updates of the concurrent specification on the PostgreSQL server, and
\* buys on the better-sqlite3 server.
ReceiveTradeOne == Receive(1, Bodies)

NextBoth ==
  \/ ReceiveTradeOne
  \/ ReceiveSetPrice(1)
  \/ Connect(1)
  \/ ConnectFails(1)
  \/ Begin(1)
  \/ SelectStock(1)
  \/ RollbackUnknown(1)
  \/ ListStocks(1)
  \/ BuySelectUser(1)
  \/ Rollback(1)
  \/ BuySelectHolding(1)
  \/ BuyWriteHolding(1)
  \/ UpdateUser(1)
  \/ InsertTx(1)
  \/ Commit(1)
  \/ SellSelectHolding(1)
  \/ SellSelectUser(1)
  \/ SellWriteHolding(1)
  \/ QueryFails(1)
  \/ Catch(1)
  \/ SetPriceSelect(1)
  \/ SetPriceList(1)
  \/ SetPriceUpdate(1)
  \/ SetPriceFails(1)
  \/ LiteBuy

SpecBoth == Init /\ [][NextBoth]_vars

\* Trades and price updates one at a time on connection slot 1, portfolio
\* views on slot 2 while they run, and portfolio views of the user_funds
\* server.
NextView ==
  \/ ReceiveTradeOne
  \/ ReceiveSetPrice(1)
  \/ Connect(1)
  \/ ConnectFails(1)
  \/ Begin(1)
  \/ SelectStock(1)
  \/ RollbackUnknown(1)
  \/ ListStocks(1)
  \/ BuySelectUser(1)
  \/ Rollback(1)
  \/ BuySelectHolding(1)
  \/ BuyWriteHolding(1)
  \/ UpdateUser(1)
  \/ InsertTx(1)
  \/ Commit(1)
  \/ SellSelectHolding(1)
  \/ SellSelectUser(1)
  \/ SellWriteHolding(1)
  \/ QueryFails(1)
  \/ Catch(1)
  \/ SetPriceSelect(1)
  \/ SetPriceList(1)
  \/ SetPriceUpdate(1)
  \/ SetPriceFails(1)
  \/ ReceivePortfolio(2)
  \/ PortfolioSelectUser(2)
  \/ PortfolioSelectHoldings(2)
  \/ PortfolioSelectStocks(2)
  \/ PortfolioFails(2)
  \/ FundsPortfolio

SpecView == Init /\ [][NextView]_vars

\* The inputs of the portfolio statistics: the "user" table without its row,
\* seeded, and after a buy; no holding, one holding, holdings whose average
\* price is not a whole number of cents (100 bought at 10.00 and 200 at
\* 20.00, 100 of them sold; 100 bought at 500.00 and 100 at 32.65); the
\* seeded prices and prices above and below them.
StatsUsers == {<<>>, <<InitialBalance>>, <<InitialBalance - 326500>>}

StatsHoldings ==
  {{},
   {[id |-> 1, stockId |-> "600036", quantity |-> 100, avg |-> Rat(3265, 1)]},
   {[id |-> 1, stockId |-> "600036", quantity |-> 200, avg |-> Rat(5000, 3)]},
   {[id |-> 1, stockId |-> "600036", quantity |-> 200, avg |-> Rat(5000, 3)],
    [id |-> 2, stockId |-> "600028", quantity |-> 200, avg |-> Rat(5000, 3)]},
   {[id |-> 1, stockId |-> "600036", quantity |-> 200, avg |-> Rat(53265, 2)]}}

StatsPrices ==
  {[id \in Stocks |-> SeedPrice(id)],
   [id \in Stocks |-> IF id = "600036" THEN 50000 ELSE SeedPrice(id)],
   [id \in Stocks |-> IF id = "600036" THEN 1000 ELSE 2000]}

InitStats ==
  /\ lite = LiteInit
  /\ funds = FundsInit
  /\ clock = 0
  /\ supa = SupaInit
  /\ files = FilesInit
  /\ pool = PoolInit
  /\ env = "production"
  /\ boot = Serving
  /\ stocks \in StatsPrices
  /\ user \in StatsUsers
  /\ portfolio \in StatsHoldings
  /\ portfolioSeq = 3
  /\ transactions = <<>>
  /\ h = [p \in Procs |-> Idle]
  /\ nreq = 0
  /\ nfail = 0

\* Portfolio views of a database that holds the inputs.
NextStats ==
  \/ ReceivePortfolio(1)
  \/ PortfolioSelectUser(1)
  \/ PortfolioSelectHoldings(1)
  \/ PortfolioSelectStocks(1)
  \/ PortfolioFails(1)

SpecStats == InitStats /\ [][NextStats]_vars

\* A millisecond passes.
Tick ==
  /\ clock < MaxClock
  /\ clock' = clock + 1
  /\ UNCHANGED <<db, h, nreq, nfail, lite, funds, others>>

\* Trades one at a time on connection slot 1 as time passes, of 100 units
\* at 500.00 of a seeded and of an unknown instrument, and ledger listings
\* between them.
LedgerBodies ==
  {Body(Str(i), Num(10000), Num(50000)) : i \in {"600036", UnknownStock}}

ReceiveTradeLedger == Receive(1, LedgerBodies)

NextLedger ==
  \/ ReceiveTradeLedger
  \/ Connect(1)
  \/ ConnectFails(1)
  \/ Begin(1)
  \/ SelectStock(1)
  \/ RollbackUnknown(1)
  \/ ListStocks(1)
  \/ BuySelectUser(1)
  \/ Rollback(1)
  \/ BuySelectHolding(1)
  \/ BuyWriteHolding(1)
  \/ UpdateUser(1)
  \/ InsertTx(1)
  \/ Commit(1)
  \/ SellSelectHolding(1)
  \/ SellSelectUser(1)
  \/ SellWriteHolding(1)
  \/ QueryFails(1)
  \/ Catch(1)
  \/ Tick
  \/ \E p \in Procs :
       \/ ReceivePage(p)
       \/ TransactionsCount(p)
       \/ TransactionsSelect(p)
       \/ TransactionsFails(p)

SpecLedger == Init /\ [][NextLedger]_vars

\* Requests one at a time on the user_funds server.
NextFunds ==
  \/ FundsBuy
  \/ FundsSell
  \/ FundsPortfolio

SpecFunds == Init /\ [][NextFunds]_vars

\* The server in any environment.
InitReset ==
  /\ lite = LiteInit
  /\ funds = FundsInit
  /\ clock = 0
  /\ supa = SupaInit
  /\ files = FilesInit
  /\ pool = PoolInit
  /\ env \in EnvValues
  /\ boot = Serving
  /\ stocks = [id \in Stocks |-> SeedPrice(id)]
  /\ user = <<InitialBalance>>
  /\ portfolio = {}
  /\ portfolioSeq = 1
  /\ transactions = <<>>
  /\ h = [p \in Procs |-> Idle]
  /\ nreq = 0
  /\ nfail = 0

\* Trades, price updates and resets one at a time on connection slot 1.
NextReset ==
  \/ ReceiveTradeOne
  \/ ReceiveSetPrice(1)
  \/ ReceiveReset(1)
  \/ ResetRun(1)
  \/ ResetFails(1)
  \/ Connect(1)
  \/ ConnectFails(1)
  \/ Begin(1)
  \/ SelectStock(1)
  \/ RollbackUnknown(1)
  \/ ListStocks(1)
  \/ BuySelectUser(1)
  \/ Rollback(1)
  \/ BuySelectHolding(1)
  \/ BuyWriteHolding(1)
  \/ UpdateUser(1)
  \/ InsertTx(1)
  \/ Commit(1)
  \/ SellSelectHolding(1)
  \/ SellSelectUser(1)
  \/ SellWriteHolding(1)
  \/ QueryFails(1)
  \/ Catch(1)
  \/ SetPriceSelect(1)
  \/ SetPriceList(1)
  \/ SetPriceUpdate(1)
  \/ SetPriceFails(1)

SpecReset == InitReset /\ [][NextReset]_vars

\* The database the server is started on: tables without rows, the tables
\* as seeded, or the tables after a price update and a buy of 100 units at
\* 500.00.
BootStores ==
  {[stocks |-> <<>>, user |-> <<>>, portfolio |-> {}, transactions |-> <<>>, seq |-> 1],
   [stocks |-> DefaultStocks, user |-> <<InitialBalance>>, portfolio |-> {},
    transactions |-> <<>>, seq |-> 1],
   [stocks |-> [DefaultStocks EXCEPT !["600036"] = 3300],
    user |-> <<InitialBalance - 5000000>>,
    portfolio |-> {[id |-> 1, stockId |-> "600036", quantity |-> 100,
                    avg |-> Rat(50000, 1)]},
    transactions |-> <<[id |-> 1, type |-> "buy", stockId |-> "600036",
                        quantity |-> 100, price |-> 50000, total |-> 5000000,
                        profitLoss |-> <<>>, ts |-> 0]>>,
    seq |-> 2]}

\* startServer() is called.
InitBoot ==
  /\ lite = LiteInit
  /\ funds = FundsInit
  /\ clock = 0
  /\ supa = SupaInit
  /\ files = FilesInit
  /\ pool = PoolInit
  /\ env = "production"
  /\ boot = [phase |-> "start", init |-> "none", tries |-> 0]
  /\ \E s \in BootStores :
       /\ stocks = s.stocks
       /\ user = s.user
       /\ portfolio = s.portfolio
       /\ portfolioSeq = s.seq
       /\ transactions = s.transactions
  /\ h = [p \in Procs |-> Idle]
  /\ nreq = 0
  /\ nfail = 0

\* The start of the server, then trades one at a time.
NextBoot ==
  \/ TestDbConnection
  \/ TestDbConnectionFails
  \/ RetryStart
  \/ InitDatabaseAndListen
  \/ InitDatabaseFailsAndListen
  \/ InitDatabaseThrows
  \/ ReceiveTradeOne
  \/ Connect(1)
  \/ ConnectFails(1)
  \/ Begin(1)
  \/ SelectStock(1)
  \/ RollbackUnknown(1)
  \/ ListStocks(1)
  \/ BuySelectUser(1)
  \/ Rollback(1)
  \/ BuySelectHolding(1)
  \/ BuyWriteHolding(1)
  \/ UpdateUser(1)
  \/ InsertTx(1)
  \/ Commit(1)
  \/ SellSelectHolding(1)
  \/ SellSelectUser(1)
  \/ SellWriteHolding(1)
  \/ QueryFails(1)
  \/ Catch(1)

SpecBoot == InitBoot /\ [][NextBoot]_vars

\* ------------------------------------------------- properties
Trades == {"buy", "sell"}

\* What is durably stored: catalog, balance, positions and ledger (the
\* SERIAL sequence of portfolio.id is not part of it: a failed INSERT
\* consumes a number).
tables == <<stocks, user, portfolio, transactions>>

Ledger == {transactions[i] : i \in 1 .. Len(transactions)}

RECURSIVE SumOver(_, _, _)
\* The sum of field f (total or quantity) of the ledger entries in S.
SumOver(S, f, acc) ==
  IF S = {} THEN acc
  ELSE LET e == CHOOSE x \in S : TRUE
       IN SumOver(S \ {e}, f, acc + (IF f = "total" THEN e.total ELSE e.quantity))

TotalOf(type) == SumOver({e \in Ledger : e.type = type}, "total", 0)
QuantityOf(type, sid) ==
  SumOver({e \in Ledger : e.type = type /\ e.stockId = sid}, "quantity", 0)

\* The stored quantity of an instrument, 0 when no record exists.
HeldQuantity(sid) ==
  IF HoldingRows(sid) = <<>> THEN 0 ELSE HoldingRows(sid)[1].quantity

Answered(p, error) ==
  h[p].pc = "done" /\ h[p].resp # <<>> /\ h[p].resp[1].error = error

InLedger(p) == \E e \in Ledger : e.id = h[p].id

\* The number a request value stands for: a JSON number, or a string that
\* is a decimal literal.
NumericValue(x) ==
  IF x.t = "number" THEN Val(x.h)
  ELSE IF x.t = "string" /\ x.s # <<>> /\ ~StringIsNaN(x.s) THEN ParseFloat(x.s)
  ELSE NaN

PositiveNumber(x) == ~NumericValue(x).nan /\ NumericValue(x).v > 0

\* A positive integer multiple of the lot size (values are hundredths).
PositiveLotMultiple(x) == PositiveNumber(x) /\ NumericValue(x).v % (100 * LotSize) = 0

\* C1: in every reachable state, under any interleaving of buy, sell and
\* setPrice requests, the stored cash balance is >= 0.
BalanceNonNegative == user # <<>> /\ user[1] >= 0

\* A buy was rejected for insufficient funds while the balance is spent.
BalanceSpentAndBuyRejected ==
  /\ user = <<0>>
  /\ \E p \in Procs : Answered(p, "InsufficientFunds") /\ h[p].resp[1].required > 0

\* C2: when buys run concurrently (no sell has committed), the sum of the
\* totals of the committed buys never exceeds the balance held before the
\* run.
CommittedBuysWithinBalance ==
  TotalOf("sell") = 0 => TotalOf("buy") <= InitialBalance

\* C3: no balance update is lost: the stored balance equals the initial
\* balance minus the committed buy totals plus the committed sell totals.
NoLostBalanceUpdate ==
  user = <<InitialBalance - TotalOf("buy") + TotalOf("sell")>>

\* C4: for each instrument the quantity of the committed sells never
\* exceeds that of the committed buys, and the stored position quantity
\* equals bought minus sold.
LongOnlyPerInstrument ==
  \A sid \in Stocks :
    /\ QuantityOf("sell", sid) <= QuantityOf("buy", sid)
    /\ HeldQuantity(sid) = QuantityOf("buy", sid) - QuantityOf("sell", sid)

EveryEndedTradeAnswered ==
  \A p \in Procs :
    (h[p].op \in Trades /\ h[p].pc \in {"done", "rejected"}) => Len(h[p].resp) = 1

\* C7: a buy whose cost (execution price x quantity) exceeds the balance it
\* reads is answered InsufficientFunds with the required and available
\* amounts and writes nothing; a buy whose cost equals the balance goes on
\* and its commit leaves the balance at 0.
InsufficientFundsRejected ==
  [][\A p \in Procs :
       (h[p].op = "buy" /\ h'[p] # h[p]) =>
         /\ (h[p].pc = "selUser" /\ h'[p].pc # "catch") =>
              IF user[1] < h[p].tradePrice * h[p].parsedQuantity
              THEN /\ h'[p].pc = "rollback"
                   /\ h'[p].pend =
                        <<[Resp(400, "InsufficientFunds") EXCEPT
                             !.required = h[p].tradePrice * h[p].parsedQuantity,
                             !.available = user[1]]>>
                   /\ h'[p].w = NoWrites
                   /\ tables' = tables
              ELSE h'[p].pc = "selHolding" /\ h'[p].balance = user[1]
         /\ (h[p].pc = "rollback" /\ h'[p].pc = "done") =>
              (h'[p].resp = h[p].pend /\ tables' = tables)
         /\ (h[p].pc = "commit" /\ h'[p].pc = "done"
             /\ h[p].balance = h[p].tradePrice * h[p].parsedQuantity) =>
              (user' = <<0>> /\ h'[p].resp[1].status = 200
               /\ h'[p].resp[1].newBalance = 0)]_vars

\* A buy was answered InsufficientFunds, requiring more than is
\* available, after a buy that cost exactly the balance left it at 0.
ExactBuyAcceptedAndOverdraftRejected ==
  \E p \in Procs :
    /\ Answered(p, "InsufficientFunds") /\ h[p].op = "buy"
    /\ h[p].resp[1].required > h[p].resp[1].available
    /\ h[p].resp[1].available = 0
    /\ \E e \in Ledger : e.type = "buy" /\ e.total = InitialBalance
    /\ user = <<0>>

\* C8: a sell of more than the held quantity is rejected (with
\* InsufficientPosition, held against requested, when a position exists)
\* and writes nothing, however often it is repeated.
OversellRejected ==
  [][\A p \in Procs :
       (h[p].op = "sell" /\ h'[p] # h[p]) =>
         /\ (h[p].pc = "selHolding" /\ h'[p].pc # "catch") =>
              IF HeldQuantity(StockId(p)) < h[p].parsedQuantity
              THEN /\ h'[p].pc = "rollback"
                   /\ h'[p].pend[1].status = 400
                   /\ HeldQuantity(StockId(p)) > 0 =>
                        h'[p].pend =
                          <<[Resp(400, "InsufficientPosition") EXCEPT
                               !.available = HeldQuantity(StockId(p)),
                               !.requested = h[p].parsedQuantity]>>
                   /\ h'[p].w = NoWrites
                   /\ tables' = tables
              ELSE h'[p].pc = "selUser"
         /\ (h[p].pc = "rollback" /\ h'[p].pc = "done") =>
              (h'[p].resp = h[p].pend /\ tables' = tables)]_vars

\* After one buy of 100 units, the third request, a sell of 200, was
\* answered InsufficientPosition; the second request wrote nothing either:
\* position, balance and ledger are those the buy left.
OversellRepeatedStateKept ==
  \E p \in Procs :
    /\ Answered(p, "InsufficientPosition") /\ h[p].id = 3
    /\ h[p].resp[1].available = 100 /\ h[p].resp[1].requested = 200
    /\ HeldQuantity(StockId(p)) = 100
    /\ user = <<InitialBalance - 5000000>>
    /\ Len(transactions) = 1 /\ transactions[1].id = 1

\* C9: a buy or sell whose quantity is not a positive integer multiple of
\* 100 is answered InvalidQuantity once the connection is acquired.
InvalidQuantityRejected ==
  \A p \in Procs :
    (h[p].op \in Trades
     /\ validateStockId(h[p].body.stockId).valid
     /\ ~PositiveLotMultiple(h[p].body.quantity)
     /\ h[p].pc \notin {"idle", "connect", "rejected"})
    => Answered(p, "InvalidQuantity")

\* C10: a buy or sell with a supplied price that is not a positive number
\* is answered InvalidPrice at validation, changes nothing and never
\* settles.
InvalidPriceRejected ==
  /\ [](\A p \in Procs :
          (h[p].op \in Trades
           /\ validateStockId(h[p].body.stockId).valid
           /\ validateQuantity(h[p].body.quantity).valid
           /\ h[p].body.price.t # "undefined"
           /\ ~PositiveNumber(h[p].body.price)
           /\ h[p].pc \notin {"idle", "connect", "rejected"})
          => (Answered(p, "InvalidPrice") /\ h[p].resp[1].status = 400
              /\ ~InLedger(p)))
  /\ [][\A p \in Procs :
          (h[p].pc = "connect" /\ h'[p].pc = "done"
           /\ h'[p].resp[1].error = "InvalidPrice") => tables' = tables]_vars

\* A sell that supplied the price 0 was answered InvalidPrice after a buy
\* had settled.
ZeroPriceSellRejected ==
  \E p \in Procs :
    /\ Answered(p, "InvalidPrice") /\ h[p].op = "sell"
    /\ h[p].body.price = Num(0)
    /\ Len(transactions) = 1

\* C11: a buy or sell that names an instrument absent from the catalog is,
\* unless a persistence call fails, answered 404 UnknownInstrument with
\* exactly the identifiers the catalog holds; none of its steps changes
\* catalog, balance, positions or ledger, and it never settles.
UnknownInstrumentRejected ==
  /\ [](\A p \in Procs :
          (h[p].op \in Trades /\ h[p].pc = "done"
           /\ validateStockId(h[p].body.stockId).valid
           /\ validateQuantity(h[p].body.quantity).valid
           /\ (h[p].body.price.t = "undefined" \/ validatePrice(h[p].body.price).valid)
           /\ StockId(p) \notin DOMAIN stocks)
          => /\ h[p].resp[1].error \in {"UnknownInstrument", "ServerError"}
             /\ ~InLedger(p)
             /\ Answered(p, "UnknownInstrument") =>
                  h[p].resp[1] = [Resp(404, "UnknownInstrument") EXCEPT
                                    !.availableStocks = DOMAIN stocks])
  /\ [][\A p \in Procs :
          (h[p].op \in Trades /\ h'[p] # h[p] /\ StockId(p) \notin DOMAIN stocks
           /\ h[p].pc \in {"selStock", "rbUnknown", "listStocks"})
          => /\ tables' = tables
             /\ h'[p].w = NoWrites
             /\ h'[p].pc # "catch" =>
                  \/ h[p].pc = "selStock" /\ h'[p].pc = "rbUnknown"
                  \/ h[p].pc = "rbUnknown" /\ h'[p].pc = "listStocks"
                  \/ h[p].pc = "listStocks" /\ Answered(p, "UnknownInstrument")']_vars

\* A sell of an instrument that is not in the catalog was answered with the
\* two identifiers of the catalog after a buy had settled.
UnknownSellListsCatalog ==
  \E p \in Procs :
    /\ Answered(p, "UnknownInstrument") /\ h[p].op = "sell"
    /\ StockId(p) = UnknownStock
    /\ h[p].resp[1].availableStocks = {"600036", "600028"}
    /\ Len(transactions) = 1

\* The entry of the ledger a settled trade reports in its answer.
ReportedTx(r) == r.resp[1].tx[1]

\* The portfolio rows of the instruments other than sid.
OtherRows(sid) == {r \in portfolio : r.stockId # sid}

\* C12: the commit of a buy of an instrument that has no position record
\* creates a record with the bought quantity q and average cost p, the
\* execution price of the reported entry, leaves the other records alone
\* and lowers the stored balance by exactly p x q.
FirstBuyCreatesPosition ==
  [][\A p \in Procs :
       (h[p].op = "buy" /\ h[p].pc = "commit" /\ h'[p].pc = "done"
        /\ HoldingRows(StockId(p)) = <<>>)
       => LET t == ReportedTx(h'[p]) IN
          /\ h'[p].resp[1].status = 200
          /\ t.stockId = StockId(p) /\ t.type = "buy"
          /\ t.quantity = h[p].parsedQuantity
          /\ t.price = (IF h[p].body.price.t = "undefined"
                        THEN h[p].stockPrice ELSE NumericValue(h[p].body.price).v)
          /\ Cardinality({r \in portfolio' : r.stockId = StockId(p)}) = 1
          /\ HeldQuantity(StockId(p))' = t.quantity
          /\ HoldingRows(StockId(p))'[1].avg = [n |-> t.price, d |-> 1]
          /\ OtherRows(StockId(p))' = OtherRows(StockId(p))
          /\ user' = <<user[1] - t.price * t.quantity>>
          /\ h'[p].resp[1].newBalance = user'[1]]_vars

\* The first buy, 100 units at 500.00, has settled: one position of 100
\* units at average cost 500.00 and a balance lowered by 50000.00.
FirstBuySettled ==
  \E p \in Procs :
    /\ Answered(p, "success") /\ h[p].op = "buy"
    /\ ReportedTx(h[p]).quantity = 100 /\ ReportedTx(h[p]).price = 50000
    /\ portfolio = {[id |-> 1, stockId |-> StockId(p), quantity |-> 100,
                      avg |-> [n |-> 50000, d |-> 1]]}
    /\ user = <<InitialBalance - 5000000>>
    /\ Len(transactions) = 1

\* The commit of a PostgreSQL buy of q units at price p into a position of
\* Q units at average cost A (the quotient A.n / A.d) leaves Q + q units at
\* average cost (A x Q + p x q) / (Q + q), compared by cross-multiplying.
PgBuyAverages ==
  \A p \in Procs :
    (h[p].op = "buy" /\ h[p].pc = "commit" /\ h'[p].pc = "done"
     /\ HoldingRows(StockId(p)) # <<>>)
    => LET old == HoldingRows(StockId(p))[1]
           new == HoldingRows(StockId(p))'[1]
           q   == h[p].parsedQuantity
           pr  == h[p].tradePrice
       IN /\ HoldingRows(StockId(p))' # <<>>
          /\ new.quantity = old.quantity + q
          /\ new.avg.n * old.avg.d * (old.quantity + q)
               = new.avg.d * (old.avg.n * old.quantity + pr * q * old.avg.d)
          /\ OtherRows(StockId(p))' = OtherRows(StockId(p))

\* A better-sqlite3 buy has settled in this step.
LiteSettles == Len(lite'.transactions) = Len(lite.transactions) + 1

\* The position of the instrument that the better-sqlite3 buy settling in
\* this step bought, before (<<>> when none) and after the step.
LiteBoughtBefore == LiteHolding(lite.portfolio, lite'.resp[1].tx[1].stockId)
LiteBoughtAfter == LiteHolding(lite'.portfolio, lite'.resp[1].tx[1].stockId)

\* A x Q + p x q, the cost of the position after the better-sqlite3 buy
\* settling in this step, in hundredths.
LiteCostAfter ==
  LiteBoughtBefore[1].averagePrice * LiteBoughtBefore[1].quantity
    + lite'.resp[1].tx[1].price * lite'.resp[1].tx[1].quantity

\* C13: a settled buy of q units at price p into a position of Q units at
\* average cost A leaves Q + q units at average cost
\* (A x Q + p x q) / (Q + q), on the PostgreSQL server and on the
\* better-sqlite3 server.
WeightedAverageOnBuy ==
  [][/\ PgBuyAverages
     /\ (LiteSettles /\ LiteBoughtBefore # <<>>) =>
          /\ LiteBoughtAfter[1].quantity
               = LiteBoughtBefore[1].quantity + lite'.resp[1].tx[1].quantity
          /\ LiteBoughtAfter[1].averagePrice * LiteBoughtAfter[1].quantity
               = LiteCostAfter]_vars

\* C13, amended: the PostgreSQL server stores that quotient as it is, and
\* the better-sqlite3 server stores the hundredth nearest to it.
WeightedAverageOnBuyRounded ==
  [][/\ PgBuyAverages
     /\ (LiteSettles /\ LiteBoughtBefore # <<>>) =>
          /\ LiteBoughtAfter[1].quantity
               = LiteBoughtBefore[1].quantity + lite'.resp[1].tx[1].quantity
          /\ 2 * Abs(LiteBoughtAfter[1].averagePrice * LiteBoughtAfter[1].quantity
                       - LiteCostAfter)
               <= LiteBoughtAfter[1].quantity]_vars

\* On the better-sqlite3 server 100 units bought at 10.00 and 200 at 20.00
\* are held at 16.67, the hundredth nearest to 5000 / 300.
LiteSecondBuyRounded ==
  /\ Len(lite.transactions) = 2
  /\ lite.transactions[1].price = 1000 /\ lite.transactions[1].quantity = 100
  /\ lite.transactions[2].price = 2000 /\ lite.transactions[2].quantity = 200
  /\ lite.portfolio = {[stockId |-> "600036", quantity |-> 300, averagePrice |-> 1667]}

\* C14: every position record of the PostgreSQL server has an average cost
\* that is a whole number of hundredths.
AverageCostInHundredths == \A r \in portfolio : r.avg.d = 1

\* C15: the commit of a sell of q units at execution price p from a
\* position of average cost A raises the stored balance by exactly p x q
\* and appends the reported entry, whose profitLoss is the hundredth
\* nearest to (p - A) x q, A being the average cost before the sale.
SellCreditsAndRecordsProfit ==
  [][\A p \in Procs :
       (h[p].op = "sell" /\ h[p].pc = "commit" /\ h'[p].pc = "done")
       => LET t == ReportedTx(h'[p])
              A == HoldingRows(StockId(p))[1].avg
          IN /\ h'[p].resp[1].status = 200
             /\ HoldingRows(StockId(p)) # <<>>
             /\ t.type = "sell" /\ t.stockId = StockId(p)
             /\ t.quantity = h[p].parsedQuantity
             /\ t.price = (IF h[p].body.price.t = "undefined"
                           THEN h[p].stockPrice ELSE NumericValue(h[p].body.price).v)
             /\ t.total = t.price * t.quantity
             /\ user' = <<user[1] + t.price * t.quantity>>
             /\ h'[p].resp[1].newBalance = user'[1]
             /\ transactions' = Append(transactions, t)
             /\ Len(t.profitLoss) = 1
             /\ 2 * Abs(t.profitLoss[1] * A.d - (t.price * A.d - A.n) * t.quantity)
                  <= A.d]_vars

\* 100 units bought at 32.65 and 100 at 500.00 (average cost 266.325) were
\* all sold at 1000.00: profitLoss 146735.00, and the balance, 46735.00
\* before the sale, is 246735.00.
SellAllRecordsProfit ==
  \E p \in Procs :
    /\ Answered(p, "success") /\ h[p].op = "sell" /\ h[p].id = 3
    /\ ReportedTx(h[p]).quantity = 200 /\ ReportedTx(h[p]).price = 100000
    /\ ReportedTx(h[p]).profitLoss = <<14673500>>
    /\ user = <<24673500>>
    /\ portfolio = {}
    /\ Len(transactions) = 3 /\ transactions[3] = ReportedTx(h[p])

\* C16: every position record has a quantity that is a positive multiple
\* of 100 (none has quantity 0), and the commit of a sell of exactly the
\* held quantity removes the record of the instrument and no other.
NoEmptyPosition ==
  /\ [](\A r \in portfolio : r.quantity > 0 /\ r.quantity % LotSize = 0)
  /\ [][\A p \in Procs :
          (h[p].op = "sell" /\ h[p].pc = "commit" /\ h'[p].pc = "done"
           /\ h[p].parsedQuantity = HeldQuantity(StockId(p)))
          => /\ HoldingRows(StockId(p))' = <<>>
             /\ OtherRows(StockId(p))' = OtherRows(StockId(p))]_vars

\* After buys of 100 units of each instrument, a sell of the 100 units of
\* the first has settled: its record is gone, the other is kept.
SellAllRemovedRecord ==
  \E p \in Procs :
    /\ Answered(p, "success") /\ h[p].op = "sell"
    /\ ReportedTx(h[p]).quantity = 100 /\ StockId(p) = "600036"
    /\ QuantityOf("buy", "600036") = 100
    /\ HoldingRows("600036") = <<>>
    /\ HeldQuantity("600028") = 100

\* C17: the commit of a sell of fewer units than are held lowers the
\* quantity of the position record by exactly the sold quantity and leaves
\* its average cost, and every other record, as they were, whatever the
\* execution price.
PartialSellKeepsAverage ==
  [][\A p \in Procs :
       (h[p].op = "sell" /\ h[p].pc = "commit" /\ h'[p].pc = "done"
        /\ h[p].parsedQuantity < HeldQuantity(StockId(p)))
       => LET old == HoldingRows(StockId(p))[1]
              new == HoldingRows(StockId(p))'[1]
          IN /\ h'[p].resp[1].status = 200
             /\ HoldingRows(StockId(p))' # <<>>
             /\ new.quantity = old.quantity - ReportedTx(h'[p]).quantity
             /\ ReportedTx(h'[p]).quantity = h[p].parsedQuantity
             /\ new.avg = old.avg
             /\ new.id = old.id
             /\ OtherRows(StockId(p))' = OtherRows(StockId(p))]_vars

\* Of 200 units bought at 500.00, 100 were sold at 1000.00: 100 units are
\* left at average cost 500.00.
PartialSellSettled ==
  \E p \in Procs :
    /\ Answered(p, "success") /\ h[p].op = "sell"
    /\ ReportedTx(h[p]).quantity = 100 /\ ReportedTx(h[p]).price = 100000
    /\ Len(transactions) = 2 /\ transactions[1].quantity = 200
    /\ portfolio = {[id |-> 1, stockId |-> StockId(p), quantity |-> 100,
                      avg |-> [n |-> 50000, d |-> 1]]}

\* The handlers of trades that answer success in this step.
SucceedingNow ==
  {p \in Procs : h[p].op \in Trades /\ h[p].pc # "done" /\ h'[p].pc = "done"
                  /\ h'[p].resp[1].status = 200}

\* The number of ledger entries written for the request of handler p.
EntriesOf(p) ==
  Cardinality({i \in 1 .. Len(transactions) : transactions[i].id = h[p].id})

\* C18: the ledger grows by exactly one entry in a step in which a buy or
\* sell answers success and by none in every other step; a trade that
\* has answered success has exactly one entry, and a trade that has
\* answered a failure, or ended without an answer, has none.
LedgerGrowsBySuccess ==
  /\ [](\A p \in Procs :
          (h[p].op \in Trades /\ h[p].pc \in {"done", "rejected"})
          => EntriesOf(p) = (IF Answered(p, "success") THEN 1 ELSE 0))
  /\ [](\A i \in 1 .. Len(transactions) : transactions[i].id \in 1 .. nreq)
  /\ [][/\ Len(transactions') = Len(transactions) + Cardinality(SucceedingNow)
         /\ SubSeq(transactions', 1, Len(transactions)) = transactions]_vars

\* Of three trades two have settled and one was refused for want of
\* units: the ledger holds two entries.
TwoSettledOneRefused ==
  \E p, q \in Procs :
    /\ Answered(p, "success") /\ h[p].op \in Trades
    /\ Answered(q, "InsufficientPosition")
    /\ nreq = 3 /\ Len(transactions) = 2

\* C19: no step of a buy, a sell, a price update or a listing of the
\* ledger changes or removes an entry of the ledger: every entry of a state
\* is, at the same place and with the same fields, in the next state.
LedgerEntriesImmutable ==
  [][\A i \in 1 .. Len(transactions) :
       i <= Len(transactions') /\ transactions'[i] = transactions[i]]_vars

\* An entry written at the catalog price 32.65 is still listed with that
\* price after the price of its instrument was set to 500.00.
EntryKeptAfterPriceUpdate ==
  \E p \in Procs :
    /\ Answered(p, "success") /\ h[p].op = "transactions"
    /\ Len(transactions) = 1 /\ transactions[1].price = 3265
    /\ stocks[transactions[1].stockId] = 50000
    /\ h[p].resp[1].transactions = {transactions[1]}
    /\ h[p].resp[1].total = 1

\* C20: every ledger entry has quantity > 0, price > 0 and
\* total = price x quantity, and has a profitLoss value exactly when its
\* side is sell.
LedgerEntriesWellFormed ==
  \A e \in Ledger :
    /\ e.type \in Trades
    /\ e.quantity > 0 /\ e.price > 0
    /\ e.total = e.price * e.quantity
    /\ (Len(e.profitLoss) = 1) <=> (e.type = "sell")
    /\ (Len(e.profitLoss) = 0) <=> (e.type = "buy")

\* The ledger holds a buy, without profitLoss, and a sell at a loss.
LedgerHoldsBuyAndLosingSell ==
  /\ \E e \in Ledger : e.type = "buy" /\ e.profitLoss = <<>>
  /\ \E e \in Ledger : e.type = "sell" /\ e.profitLoss # <<>> /\ e.profitLoss[1] < 0

\* C21: a buy or sell reads the catalog price of its instrument as it is
\* stored when its SELECT runs, and settles at the supplied price when a
\* valid one is supplied and at the price it read when none is; with
\* requests one at a time that is the price the catalog holds, which
\* every price update that completed before has set.
TradeExecutesAtSuppliedOrCatalogPrice ==
  [][\A p \in Procs :
       (h[p].op \in Trades /\ h'[p] # h[p]) =>
         /\ (h[p].pc = "selStock" /\ h'[p].pc \notin {"catch", "rbUnknown"}) =>
              h'[p].stockPrice = stocks[StockId(p)]
         /\ (h[p].pc = "commit" /\ h'[p].pc = "done") =>
              /\ h'[p].resp[1].status = 200
              /\ h[p].stockPrice = stocks[StockId(p)]
              /\ ReportedTx(h'[p]).price =
                   (IF h[p].body.price.t = "undefined"
                    THEN stocks[StockId(p)]
                    ELSE NumericValue(h[p].body.price).v)
              /\ ReportedTx(h'[p]).total
                   = ReportedTx(h'[p]).price * ReportedTx(h'[p]).quantity
              /\ transactions' = Append(transactions, ReportedTx(h'[p]))]_vars

\* After the price of 600036 was set to 500.00, a trade in it that
\* supplied no price has settled at 500.00.
TradeSettledAtUpdatedPrice ==
  \E p \in Procs :
    /\ Answered(p, "success") /\ h[p].op \in Trades
    /\ h[p].body.price = Undefined
    /\ StockId(p) = "600036" /\ stocks["600036"] = 50000
    /\ ReportedTx(h[p]).price = 50000

CostBasis == CostOf(portfolio, Rat(0, 1))

\* The initial balance minus the signed notional of the ledger: the total
\* of a buy counts positive, the total of a sell negative.
InitialMinusNotional == InitialBalance - TotalOf("buy") + TotalOf("sell")

\* Every request received so far was a trade, and it has settled.
AllSettled == nfail = 0 /\ Len(transactions) = nreq

\* C22 as stated: after buys and sells that all settled, the balance plus
\* the cost basis of the open positions equals the initial balance minus
\* the signed notional of the trades.
BalancePlusCostIsInitialMinusNotional ==
  AllSettled =>
    user[1] * CostBasis.d + CostBasis.n = InitialMinusNotional * CostBasis.d

\* C22: with requests one at a time the balance alone equals the initial
\* balance minus the signed notional of the ledger entries (buys positive,
\* sells negative), whether or not other requests failed; and while the
\* ledger holds no sell, the balance plus the cost basis of the open
\* positions equals the initial balance.
CashConservedAgainstLedger ==
  /\ user[1] = InitialMinusNotional
  /\ TotalOf("sell") = 0 =>
       user[1] * CostBasis.d + CostBasis.n = InitialBalance * CostBasis.d

\* Two buys and a sell have settled, none failed, and a position is open.
BoughtTwiceAndSoldWithOpenPosition ==
  /\ AllSettled
  /\ \E e \in Ledger : e.type = "sell" /\ e.profitLoss # <<0>>
  /\ Cardinality({e \in Ledger : e.type = "buy"}) = 2
  /\ portfolio # {}
  /\ user[1] = InitialMinusNotional

\* C23: an update-price request with a well-formed id is answered
\* InvalidPrice when its price is a number that is not positive, and, when
\* its price is valid, UnknownInstrument if the id is not in the catalog;
\* no step of a request that ends in an error changes a catalog price.
\* With a valid price and a known id it overwrites that instrument's price
\* with the new price and answers with it, unless a query fails.
SetPriceContract ==
  /\ [](\A p \in Procs :
          (h[p].op = "setPrice" /\ h[p].pc = "done"
           /\ validateStockId(h[p].body.stockId).valid)
          => /\ (~NumericValue(h[p].body.price).nan /\ NumericValue(h[p].body.price).v <= 0)
                  => Answered(p, "InvalidPrice")
             /\ (PositiveNumber(h[p].body.price) /\ StockId(p) \notin DOMAIN stocks)
                  => h[p].resp[1].error \in {"UnknownInstrument", "ServerError"}
             /\ (PositiveNumber(h[p].body.price) /\ StockId(p) \in DOMAIN stocks)
                  => h[p].resp[1].error \in {"success", "ServerError"})
  /\ [][\A p \in Procs :
          (h'[p].op = "setPrice" /\ h'[p] # h[p])
          => IF h'[p].pc = "done" /\ h'[p].resp[1].error = "success"
             THEN /\ StockId(p) \in DOMAIN stocks
                  /\ stocks' = [stocks EXCEPT ![StockId(p)] =
                                  NumericValue(h[p].body.price).v]
                  /\ h'[p].resp[1].status = 200
                  /\ h'[p].resp[1].price = stocks'[StockId(p)]
             ELSE stocks' = stocks]_vars

\* An update to 500.00 was applied, and a later update of the same
\* instrument to a price of zero was refused and left the catalog as the
\* first update made it.
SetPriceAppliedThenRefused ==
  \E p \in Procs :
    /\ h[p].op = "setPrice" /\ Answered(p, "InvalidPrice")
    /\ h[p].body = Body(Str("600036"), Undefined, Num(0))
    /\ stocks = [id \in Stocks |-> IF id = "600036" THEN 50000 ELSE SeedPrice(id)]

\* C24: no step of a buy or sell, whatever its price field and however it
\* ends, changes a catalog price; a catalog price changes only in the
\* UPDATE step of an update-price request.
CatalogWrittenOnlyBySetPrice ==
  [][/\ \A p \in Procs :
          ((h[p].op \in Trades \/ h'[p].op \in Trades) /\ h'[p] # h[p])
          => stocks' = stocks
     /\ stocks' # stocks =>
          \E p \in Procs : /\ h[p].op = "setPrice" /\ h[p].pc = "spUpdate"
                           /\ h'[p].pc = "done"]_vars

\* A buy at a supplied price of 500.00 and a sell at the catalog price have
\* settled, another trade has failed, and the catalog holds the seeded
\* prices.
TradesSettledAndFailedCatalogKept ==
  /\ stocks = [id \in Stocks |-> SeedPrice(id)]
  /\ \E e \in Ledger : e.type = "buy" /\ e.price = 50000 /\ e.stockId = "600036"
  /\ \E p, q \in Procs :
       /\ Answered(p, "success") /\ h[p].op = "sell" /\ h[p].body.price = Undefined
       /\ Answered(q, "ServerError") /\ h[q].op \in Trades

\* C25: a step of an update-price request leaves the balance, every
\* position record and every ledger entry as they are, and the step that
\* applies the update changes the price of the named instrument and of no
\* other.
SetPriceChangesOnlyNamedPrice ==
  [][\A p \in Procs :
       ((h[p].op = "setPrice" \/ h'[p].op = "setPrice") /\ h'[p] # h[p])
       => /\ user' = user
          /\ portfolio' = portfolio
          /\ transactions' = transactions
          /\ IF h[p].pc = "spUpdate"
             THEN \A id \in DOMAIN stocks \ {StockId(p)} : stocks'[id] = stocks[id]
             ELSE stocks' = stocks
          /\ DOMAIN stocks' = DOMAIN stocks]_vars

\* A buy at the catalog price of 32.65 has settled and the price of its
\* instrument was then set to 500.00: the position, the ledger entry, the
\* balance and the other price are those the buy left.
PriceSetAfterBuyLeavesRest ==
  \E p \in Procs :
    /\ Answered(p, "success") /\ h[p].op = "setPrice"
    /\ stocks = [id \in Stocks |-> IF id = "600036" THEN 50000 ELSE SeedPrice(id)]
    /\ user = <<InitialBalance - 326500>>
    /\ \E r \in portfolio :
         r.stockId = "600036" /\ r.quantity = 100 /\ r.avg = Rat(3265, 1)
    /\ Len(transactions) = 1 /\ transactions[1].price = 3265

\* C26: no step of a portfolio view changes stored state: on the
\* PostgreSQL server catalog, balance, positions and ledger stay as they
\* are, and on the user_funds server the table user_funds stays as it is,
\* also when it holds no row.
PortfolioViewChangesNothing ==
  [][/\ \A p \in Procs :
          ((h[p].op = "portfolio" \/ h'[p].op = "portfolio") /\ h'[p] # h[p])
          => db' = db
     /\ (funds' # funds /\ funds'.req.op = "portfolio") => funds'.rows = funds.rows]_vars

RECURSIVE BalanceAfter(_)
\* The balance once the first k ledger entries have committed, trades
\* running one at a time.
BalanceAfter(k) ==
  IF k = 0 THEN InitialBalance
  ELSE NewBalance(transactions[k].type, BalanceAfter(k - 1), transactions[k].total)

RECURSIVE QuantityAfter(_, _)
\* The held quantity of sid once the first k ledger entries have committed.
QuantityAfter(k, sid) ==
  IF k = 0 THEN 0
  ELSE QuantityAfter(k - 1, sid)
       + (IF transactions[k].stockId # sid THEN 0
          ELSE IF transactions[k].type = "buy" THEN transactions[k].quantity
          ELSE -transactions[k].quantity)

\* The quantity a portfolio answer reports for sid, 0 when it has no entry.
ViewQuantity(view, sid) ==
  IF \E e \in view.stocks : e.stockId = sid
  THEN (CHOOSE e \in view.stocks : e.stockId = sid).quantity
  ELSE 0

\* C27: the balance and the positions an answered portfolio view reports
\* are those of one committed state: with trades one at a time beside the
\* view, the state after some number k of the ledger's entries.
PortfolioViewIsSnapshot ==
  \A p \in Procs :
    (Answered(p, "success") /\ h[p].op = "portfolio")
    => \E k \in 0 .. Len(transactions) :
         /\ h[p].resp[1].view[1].balance = BalanceAfter(k)
         /\ \A sid \in Stocks :
              ViewQuantity(h[p].resp[1].view[1], sid) = QuantityAfter(k, sid)

\* The answer of a portfolio view that p has sent.
ViewOf(p) == h[p].resp[1].view[1]

ViewAnswered(p) == Answered(p, "success") /\ h[p].op = "portfolio"

RECURSIVE DenOf(_)
\* A common denominator of the average prices of the rows in S.
DenOf(S) ==
  IF S = {} THEN 1
  ELSE LET r == CHOOSE x \in S : TRUE IN r.avg.d * DenOf(S \ {r})

RECURSIVE CostTimes(_, _)
\* D times the sum of averagePrice * quantity over the rows in S.
CostTimes(S, D) ==
  IF S = {} THEN 0
  ELSE LET r == CHOOSE x \in S : TRUE
       IN r.avg.n * r.quantity * (D \div r.avg.d) + CostTimes(S \ {r}, D)

RECURSIVE MarketOf(_)
\* The sum of catalog price * quantity over the rows in S.
MarketOf(S) ==
  IF S = {} THEN 0
  ELSE LET r == CHOOSE x \in S : TRUE
       IN stocks[r.stockId] * r.quantity + MarketOf(S \ {r})

\* x hundredths is a hundredth nearest to n / d.
NearestHundredth(x, n, d) ==
  LET diff == x * d - n IN 2 * (IF diff >= 0 THEN diff ELSE -diff) <= d

\* C29: a portfolio view of a database that does not change reports
\* totalValue = the sum of currentPrice x quantity, totalCost = the sum
\* of averageCost x quantity, totalProfitLoss = their difference, each
\* being the hundredth nearest to the exact sum over all positions, and
\* totalAssets = balance + totalValue, the balance being 100000.00 when
\* the account row is missing.
PortfolioTotalsAreExactSums ==
  \A p \in Procs :
    ViewAnswered(p) =>
      LET D == DenOf(portfolio)
          N == CostTimes(portfolio, D)
          V == MarketOf(portfolio)
          B == IF user = <<>> THEN DefaultBalance ELSE user[1]
      IN /\ ViewOf(p).totalValue = V
         /\ ViewOf(p).portfolioValue = V
         /\ NearestHundredth(ViewOf(p).totalCost, N, D)
         /\ NearestHundredth(ViewOf(p).totalProfitLoss, V * D - N, D)
         /\ ViewOf(p).balance = B
         /\ ViewOf(p).totalAssets = B + V
         /\ Cardinality(ViewOf(p).stocks) = Cardinality(portfolio)

\* Two positions of 200 units at an average of 16.666..., each costing
\* 3333.33 when rounded, were reported with a total cost of 6666.67, with
\* the account row missing.
ViewSumsBeforeRounding ==
  \E p \in Procs :
    /\ ViewAnswered(p) /\ user = <<>>
    /\ Cardinality(portfolio) = 2
    /\ \A r \in portfolio : RoundDiv(r.avg.n * r.quantity, r.avg.d) = 333333
    /\ ViewOf(p).totalCost = 666667
    /\ ViewOf(p).totalAssets = DefaultBalance + ViewOf(p).totalValue

\* The positions of the ledger ordered by timestamp, newest first, entries
\* of equal timestamp in insertion order: the later one first when late,
\* the earlier one first otherwise.
OrderedLedger(late) ==
  CHOOSE f \in [1 .. Len(transactions) -> 1 .. Len(transactions)] :
    /\ \A i, j \in 1 .. Len(transactions) : i # j => f[i] # f[j]
    /\ \A i, j \in 1 .. Len(transactions) :
         i < j => \/ transactions[f[i]].ts > transactions[f[j]].ts
                  \/ /\ transactions[f[i]].ts = transactions[f[j]].ts
                     /\ IF late THEN f[i] > f[j] ELSE f[i] < f[j]

\* p has answered a ledger listing, and the ledger is the one it counted.
ListingAnswered(p) ==
  /\ Answered(p, "success") /\ h[p].op = "transactions"
  /\ h[p].resp[1].total = Len(transactions)

\* The entries at positions (page - 1) x limit .. page x limit - 1 of the
\* order f, as far as the ledger reaches.
PageOf(f, page, limit) ==
  LET offset == (page - 1) * limit
      left   == Len(transactions) - offset
      count  == IF left < 0 THEN 0 ELSE IF left < limit THEN left ELSE limit
  IN [i \in 1 .. count |-> transactions[f[offset + i]]]

\* C30: every answered listing of an unchanged ledger holds the entries at
\* positions (page - 1) x limit .. page x limit - 1 of the ledger ordered
\* by timestamp, newest first, ties in insertion order (the same way in
\* every listing), and two listings of different pages with the same limit
\* have no entry in common.
LedgerPagesPartitionOrder ==
  /\ \E late \in BOOLEAN :
       \A p \in Procs :
         ListingAnswered(p) =>
           h[p].resp[1].rows
             = PageOf(OrderedLedger(late), h[p].resp[1].page, h[p].resp[1].limit)
  /\ \A p, q \in Procs :
       (/\ ListingAnswered(p) /\ ListingAnswered(q)
        /\ h[p].resp[1].limit = h[q].resp[1].limit
        /\ h[p].resp[1].page # h[q].resp[1].page)
       => h[p].resp[1].transactions \cap h[q].resp[1].transactions = {}

\* C31: a sell with valid fields of a catalog instrument of which no
\* position is held is, unless a persistence call fails, answered
\* InsufficientPosition with a held quantity of 0 and the requested
\* quantity, and the ledger does not hold it.
SellWithoutPositionIsInsufficient ==
  \A p \in Procs :
    (/\ h[p].op = "sell" /\ h[p].pc = "done"
     /\ validateStockId(h[p].body.stockId).valid
     /\ validateQuantity(h[p].body.quantity).valid
     /\ (h[p].body.price.t = "undefined" \/ validatePrice(h[p].body.price).valid)
     /\ StockId(p) \in DOMAIN stocks
     /\ HeldQuantity(StockId(p)) = 0
     /\ ~InLedger(p))
    => \/ Answered(p, "ServerError")
       \/ /\ Answered(p, "InsufficientPosition")
          /\ h[p].resp[1].available = 0
          /\ h[p].resp[1].requested = validateQuantity(h[p].body.quantity).parsed

\* The balance the user_funds server works with: the row, or the default
\* it inserts when the table is empty.
FundsBalance(f) == getCurrentBalance(f.rows).balance

\* C32: a buy or sell of the user_funds server that returns a failure
\* response has changed none of balance, positions and ledger.
FundsFailureChangesNothing ==
  [][(/\ funds'.n = funds.n + 1
      /\ funds'.resp[1].status # 200)
     => /\ FundsBalance(funds') = FundsBalance(funds)
        /\ funds'.portfolio = funds.portfolio
        /\ funds'.transactions = funds.transactions]_vars

\* C35: on the user_funds server a buy with a supplied price that is zero,
\* negative or not a number is answered InvalidPrice, and a sell without a
\* price of a held quantity of a catalog instrument succeeds at the catalog
\* price.
FundsPriceRule ==
  LET b == funds.req.body IN
  /\ (/\ funds.req.op = "buy"
      /\ validateStockId(b.stockId).valid
      /\ FundsValidateQuantity(b.quantity).valid
      /\ b.price.t # "undefined"
      /\ ~FundsValidatePrice(b.price).valid)
     => funds.resp[1].error = "InvalidPrice"
  /\ (/\ funds.req.op = "sell"
      /\ validateStockId(b.stockId).valid
      /\ FundsValidateQuantity(b.quantity).valid
      /\ b.price.t = "undefined"
      /\ b.stockId.s \in Stocks
      /\ funds.resp[1].error \notin {"ServerError", "NoHolding", "InsufficientPosition"})
     => /\ funds.resp[1].status = 200
        /\ funds.resp[1].tx[1].price = SeedPrice(b.stockId.s)

\* C33: on the Supabase server, when the ledger entry of a trade has been
\* inserted or the trade is answered with success, the balance write and
\* the position write of that trade have been applied.
SupaLedgerEntryImpliesWrites ==
  (/\ supa.req.op \in {"buy", "sell"}
   /\ \/ "ledger" \in supa.applied
      \/ supa.resp[1].status = 200)
  => {"position", "balance"} \subseteq supa.applied

\* The ledger entries of the JSON-file server, and the sum of their totals.
FileLedger == {files.transactions[i] : i \in 1 .. Len(files.transactions)}
FileTotal(type) == SumOver({e \in files.done : e.type = type}, "total", 0)
FileQuantity(type, sid) ==
  SumOver({e \in files.done : e.type = type /\ e.stockId = sid}, "quantity", 0)
FileHeld(sid) ==
  SumOver({r \in files.user.portfolio : r.stockId = sid}, "quantity", 0)

\* C34: on the JSON-file server, when no trade is in flight, the files hold
\* what a serial execution of the trades that reported success leaves: the
\* balance is the initial balance less the bought and plus the sold totals,
\* each position is the bought less the sold quantity, and the transactions
\* file holds the entry of each of those trades.
FileTradesSerializable ==
  (\A p \in Procs : FileFinished(p))
  => /\ files.user.balance = InitialBalance - FileTotal("buy") + FileTotal("sell")
     /\ \A sid \in Stocks :
          FileHeld(sid) = FileQuantity("buy", sid) - FileQuantity("sell", sid)
     /\ files.done \subseteq FileLedger

\* C36: every position refers to an instrument of the catalog, and the
\* catalog holds the seeded instrument identifiers and no other.
PositionsReferToCatalog ==
  /\ \A r \in portfolio : r.stockId \in DOMAIN stocks
  /\ DOMAIN stocks = Stocks

\* A position is open, a trade of an unknown instrument has been refused
\* and a price of the catalog has been changed.
PositionOpenUnknownRefusedPriceSet ==
  /\ portfolio # {}
  /\ \E p \in Procs : h[p].op = "buy" /\ Answered(p, "UnknownInstrument")
  /\ \E id \in DOMAIN stocks : stocks[id] # SeedPrice(id)

\* C37: every buy or sell of an unknown instrument is answered
\* UnknownInstrument, whatever the number in flight: none is answered with
\* a server error and none is left without an answer because it waited for
\* a client of the pool.
PoolUnknownAlwaysAnswered ==
  /\ pool.err = 0
  /\ pool.rejected = 0

\* C38: a reset is refused unless the environment is development; a reset
\* that succeeds leaves an empty ledger, no position and the balance
\* 100000.00; a reset that fails or is refused changes no table; no step of
\* a reset changes the catalog.
ResetContract ==
  [][(h'[1].op = "reset" /\ h'[1] # h[1])
     => /\ stocks' = stocks
        /\ env # "development"
           => /\ h'[1].pc = "done" /\ h'[1].resp[1].error = "Forbidden"
              /\ db' = db
        /\ IF h'[1].pc = "done" /\ h'[1].resp[1].status = 200
           THEN /\ env = "development"
                /\ transactions' = <<>>
                /\ portfolio' = {}
                /\ user' = <<InitialBalance>>
           ELSE db' = db]_vars

\* A reset has succeeded after a buy had opened a position.
ResetAfterBuy ==
  /\ h[1].op = "reset" /\ h[1].pc = "done" /\ h[1].resp[1].status = 200
  /\ portfolioSeq = 2 /\ nfail = 0 /\ nreq = 2
  /\ transactions = <<>> /\ portfolio = {} /\ user = <<InitialBalance>>

\* C39: when initDatabase has run with no failure of the database at run
\* time, the catalog holds the default
\* instruments if it was empty and is unchanged otherwise, the account
\* holds 100000.00 if there was none and is unchanged otherwise, and
\* positions and ledger are unchanged.
InitDatabaseSeedsWhatIsMissing ==
  [][(boot.phase = "init" /\ boot'.phase = "listening" /\ boot'.init # "failed")
     => /\ stocks' = IF DOMAIN stocks = {} THEN DefaultStocks ELSE stocks
        /\ user' = IF user = <<>> THEN <<InitialBalance>> ELSE user
        /\ portfolio' = portfolio
        /\ transactions' = transactions]_vars

\* C40: a buy or sell is received only when the connection test has
\* succeeded and initDatabase has returned true, and then the catalog and
\* the account are there.
TradesServedOnlyAfterInit ==
  \A p \in Procs :
    h[p].op \in {"buy", "sell"}
    => /\ boot.phase = "listening"
       /\ boot.init = "true"
       /\ DOMAIN stocks = Stocks
       /\ user # <<>>

====
